---- MODULE Spec2Model ----
(***************************************************************************)
(* Model of swagger-docs-mcp: the SwaggerFetcher fetch/parse/merge/cache   *)
(* pipeline (src/src/swagger-fetcher.ts), the AuthManager request layer    *)
(* (src/unnamed/part_000) and the CallTool handler (src/unnamed/part_001). *)
(*                                                                         *)
(* JavaScript values are encoded as follows.                               *)
(*   - an optional value is <<>> (undefined) or <<v>>;                     *)
(*   - an object used as a map is a sequence of [k, v] records in          *)
(*     insertion order (the order Object.entries/Object.keys iterate);     *)
(*   - a parsed document is a record with the fields of SwaggerDoc and a   *)
(*     kind that tells an object from null and from a scalar;              *)
(*   - a URL is the record [origin, path, ext] of the string               *)
(*     origin/path+ext.                                                    *)
(***************************************************************************)
EXTENDS Integers, Sequences, FiniteSets, TLC

VARIABLES
    now,              \* Date.now()
    config,           \* Config: [cacheTTL, auth]
    requestConfig,    \* the AxiosRequestConfig that authenticatedRequest prepares
    cache,            \* SwaggerFetcher.cache: url -> <<>> or <<[data, timestamp]>>
    combinedDocs,     \* SwaggerFetcher.combinedDocs: ordered Map name -> doc
    swaggerConfig,    \* SwaggerFetcher.swaggerConfig: the parsed registry, or null
    cachedSwaggerDoc, \* module variable of the server: the current document, or null
    calls,            \* the tool calls in flight, one frame per handler invocation
    last,             \* the response of the tool call that completed last
    succeeded,        \* history: a fetch_swagger call has answered with success
    ncalls            \* number of tool calls made so far

vars == <<now, config, requestConfig, cache, combinedDocs, swaggerConfig, cachedSwaggerDoc,
          calls, last, succeeded, ncalls>>

---------------------------------------------------------------------------
(* Optional values and insertion-ordered maps *)

Undefined == <<>>

Some(v) == <<v>>

IsDefined(o) == Len(o) > 0

Val(o) == o[1]

HasKey(m, key) == \E i \in 1..Len(m) : m[i].k = key

Get(m, key) == m[CHOOSE i \in 1..Len(m) : m[i].k = key].v

\* m[key] = v on a JavaScript object: an existing key keeps its position
Put(m, key, v) ==
    IF HasKey(m, key)
    THEN [i \in 1..Len(m) |-> IF m[i].k = key THEN [k |-> key, v |-> v] ELSE m[i]]
    ELSE Append(m, [k |-> key, v |-> v])

RECURSIVE ObjectAssign(_, _)
ObjectAssign(target, src) ==
    IF src = <<>> THEN target
    ELSE ObjectAssign(Put(target, src[1].k, src[1].v), Tail(src))

ObjectKeys(m) == [i \in 1..Len(m) |-> m[i].k]

KeySet(m) == {m[i].k : i \in 1..Len(m)}

---------------------------------------------------------------------------
(* Documents *)

NoString == "undefined"

\* if (s): a string field is truthy when it is present and not empty
Truthy(s) == s # NoString /\ s # ""

(* Text that the queries lower-case, upper-case or search is a sequence of   *)
(* one-character strings: path templates, path-item keys, the text fields of *)
(* an operation and tag names.                                               *)
UpperAlphabet == <<"A", "B", "C", "D", "E", "F", "G", "H", "I", "J", "K", "L", "M",
                   "N", "O", "P", "Q", "R", "S", "T", "U", "V", "W", "X", "Y", "Z">>

LowerAlphabet == <<"a", "b", "c", "d", "e", "f", "g", "h", "i", "j", "k", "l", "m",
                   "n", "o", "p", "q", "r", "s", "t", "u", "v", "w", "x", "y", "z">>

LowerChar(c) ==
    IF \E i \in 1..26 : UpperAlphabet[i] = c
    THEN LowerAlphabet[CHOOSE i \in 1..26 : UpperAlphabet[i] = c]
    ELSE c

UpperChar(c) ==
    IF \E i \in 1..26 : LowerAlphabet[i] = c
    THEN UpperAlphabet[CHOOSE i \in 1..26 : LowerAlphabet[i] = c]
    ELSE c

\* String.prototype.toLowerCase
toLowerCase(s) == [i \in 1..Len(s) |-> LowerChar(s[i])]

\* String.prototype.toUpperCase
toUpperCase(s) == [i \in 1..Len(s) |-> UpperChar(s[i])]

\* String.prototype.includes
includes(s, sub) ==
    \E i \in 0..(Len(s) - Len(sub)) : \A j \in 1..Len(sub) : s[i + j] = sub[j]

\* Array.prototype.join(' ')
RECURSIVE joinSpace(_)
joinSpace(parts) ==
    IF parts = <<>> THEN <<>>
    ELSE IF Len(parts) = 1 THEN parts[1]
    ELSE parts[1] \o <<" ">> \o joinSpace(Tail(parts))

sGet == <<"g", "e", "t">>

sPost == <<"p", "o", "s", "t">>

sUsers == <<"u", "s">>

NullDoc ==
    [kind |-> "null", openapi |-> NoString, swagger |-> NoString,
     info |-> Undefined, paths |-> Undefined, schemas |-> Undefined,
     securitySchemes |-> Undefined, definitions |-> Undefined,
     tags |-> Undefined, source |-> NoString]

EmptyObject == [NullDoc EXCEPT !.kind = "object"]

Operation(summary, optags) ==
    [summary |-> Some(summary), description |-> Undefined, operationId |-> Undefined,
     tags |-> optags]

PathItem(entries) == [kind |-> "object", entries |-> entries]

Entry(key, v) == [k |-> key, v |-> v]

Tag(name, description) == [name |-> name, description |-> description]

Info(title) == [title |-> title, version |-> "1", description |-> NoString]

\* a modern document with every section
DocA ==
    [EmptyObject EXCEPT
        !.openapi = "3.0.0",
        !.info = Some(Info("A")),
        !.paths = Some(<<Entry(<<"/", "p">>, PathItem(<<Entry(sGet, Operation(<<"A">>, Some(<<sUsers>>)))>>)),
                         Entry(<<"/", "a">>, PathItem(<<Entry(sPost, Operation(<<"A">>, Undefined))>>))>>),
        !.schemas = Some(<<Entry("S", "A.S"), Entry("SA", "A.SA")>>),
        !.securitySchemes = Some("A.sec"),
        !.tags = Some(<<Tag(sUsers, "A")>>)]

\* a legacy document: schemas under definitions, no components
DocB ==
    [EmptyObject EXCEPT
        !.swagger = "2.0",
        !.info = Some(Info("B")),
        !.paths = Some(<<Entry(<<"/", "p">>, PathItem(<<Entry(sPost, Operation(<<"B">>, Some(<<sUsers>>)))>>))>>),
        !.definitions = Some(<<Entry("S", "B.S"), Entry("SB", "B.SB")>>),
        !.tags = Some(<<Tag(sUsers, "B"), Tag(<<"t", "b">>, "B"), Tag(<<"t", "b">>, "B2")>>)]

\* a legacy document that also carries components.schemas
DocC ==
    [EmptyObject EXCEPT
        !.swagger = "2.0",
        !.info = Some(Info("C")),
        !.paths = Some(<<Entry(<<"/", "c">>, PathItem(<<Entry(sGet, Operation(<<"C">>, Undefined))>>))>>),
        !.schemas = Some(<<Entry("SC", "C.components")>>),
        !.securitySchemes = Some("C.sec"),
        !.definitions = Some(<<Entry("SD", "C.definitions")>>)]

sPet == <<"P", "e", "t">>

\* a modern document with both schema maps, path-item keys that are no methods
\* and method keys in upper and mixed case
DocQ ==
    [EmptyObject EXCEPT
        !.openapi = "3.0.0",
        !.info = Some(Info("Q")),
        !.paths = Some(<<
            Entry(<<"/", "p">>, PathItem(<<
                Entry(<<"G", "E", "T">>, Operation(sPet, Some(<<sUsers>>))),
                Entry(<<"x", "-", "e">>, Operation(<<"X">>, Undefined)),
                Entry(sPost, Operation(<<"N", "e", "w">>, Undefined))>>)),
            Entry(<<"/", "q">>, PathItem(<<
                Entry(<<"p", "a", "r", "a", "m", "e", "t", "e", "r", "s">>,
                      Operation(<<"g", "e", "t">>, Undefined)),
                Entry(<<"H", "e", "a", "d">>,
                      [Operation(<<>>, Some(<<sPet, sUsers>>)) EXCEPT
                          !.summary = Undefined, !.operationId = Some(<<"o", "p">>)])>>))>>),
        !.schemas = Some(<<Entry("S", "Q.components")>>),
        !.definitions = Some(<<Entry("D", "Q.definitions")>>)]

\* a modern document whose schemas sit under definitions only
DocM == [DocB EXCEPT !.openapi = "3.0.0", !.swagger = NoString, !.info = Some(Info("M"))]

\* a document whose openapi field is the empty string
DocE == [DocQ EXCEPT !.openapi = "", !.swagger = "2.0", !.info = Some(Info("E"))]

\* a document with no paths field
DocNoPaths ==
    [EmptyObject EXCEPT
        !.openapi = "3.0.0",
        !.info = Some(Info("N")),
        !.schemas = Some(<<Entry("SN", "N.SN")>>),
        !.tags = Some(<<Tag(<<"t", "n">>, "N")>>)]

\* a path item that is null
NullPathItem == [kind |-> "null", entries |-> <<>>]

\* a document one of whose path items is null
DocNullItem ==
    [EmptyObject EXCEPT
        !.openapi = "3.0.0",
        !.info = Some(Info("Z")),
        !.paths = Some(<<Entry(<<"/", "p">>, PathItem(<<Entry(sGet, Operation(<<"Z">>, Undefined))>>)),
                         Entry(<<"/", "z">>, NullPathItem)>>),
        !.schemas = Some(<<Entry("S", "Z.S")>>)]

\* a document with no info field
DocNoInfo ==
    [EmptyObject EXCEPT
        !.openapi = "3.0.0",
        !.paths = Some(<<Entry(<<"/", "i">>, PathItem(<<Entry(sGet, Operation(<<"I">>, Undefined))>>))>>)]

---------------------------------------------------------------------------
(* Response bodies and their decoding *)

\* a response body: its text format and the value the text denotes
Body(fmt, val) == [fmt |-> fmt, val |-> val]

EmptyBody == Body("empty", NullDoc)

BlankBody == Body("blank", NullDoc)

GarbageBody == Body("garbage", NullDoc)

Json(val) == Body("json", val)

Yaml(val) == Body("yaml", val)

\* String.prototype.trim() leaves nothing
TrimIsEmpty(body) == body.fmt \in {"empty", "blank"}

Threw(msg) == [threw |-> TRUE, msg |-> msg, val |-> NullDoc]

Returned(val) == [threw |-> FALSE, msg |-> "", val |-> val]

\* YAML.parse: JSON text is YAML; text with no content parses to null
YAMLparse(body) ==
    CASE body.fmt = "garbage" -> Threw("YAMLParseError")
      [] body.fmt \in {"empty", "blank"} -> Returned(NullDoc)
      [] OTHER -> Returned(body.val)

\* JSON.parse: only JSON text parses
JSONparse(body) ==
    IF body.fmt = "json" THEN Returned(body.val) ELSE Threw("SyntaxError")

\* try YAML.parse, and JSON.parse when it throws
Decode(body) ==
    IF ~YAMLparse(body).threw THEN YAMLparse(body)
    ELSE IF ~JSONparse(body).threw THEN JSONparse(body)
    ELSE Threw("Unable to parse response as YAML or JSON")

\* an HTTP exchange: the request fails, or a text body comes back
HttpError == [status |-> "error", body |-> EmptyBody]

HttpOk(body) == [status |-> "ok", body |-> body]

---------------------------------------------------------------------------
(* The source registry (swagger-config.json) *)

NullConfig == [kind |-> "null", urls |-> Undefined]

\* a parsed registry object; urls is undefined or the list of {url, name}
ConfigObject(urls) == [kind |-> "object", urls |-> urls]

Source(path, ext, name) == [url |-> [path |-> path, ext |-> ext], name |-> name]

---------------------------------------------------------------------------
(* URLs *)

Url(origin, path, ext) == [origin |-> origin, path |-> path, ext |-> ext]

\* the .json suffix left out
IsDirectUrlYamlOnly(url) == url.ext \in {".yaml", ".yml"}

\* url.endsWith('.json') || url.endsWith('.yaml') || url.endsWith('.yml')
IsDirectUrl(url) == url.ext \in {".json", ".yaml", ".yml"}

\* `${urlObj.protocol}//${urlObj.host}`
BaseUrl(url) == url.origin

\* `${baseUrl}/swagger-config.json`
ConfigUrl(baseUrl) == Url(baseUrl, "swagger-config", ".json")

\* `${baseUrl}/${path}`
FullUrl(baseUrl, path) == Url(baseUrl, path.path, path.ext)

---------------------------------------------------------------------------
(* Queries over a document: SwaggerFetcher.getEndpoints and the others *)

HttpMethods == {<<"g", "e", "t">>, <<"p", "o", "s", "t">>, <<"p", "u", "t">>,
                <<"d", "e", "l", "e", "t", "e">>, <<"p", "a", "t", "c", "h">>,
                <<"o", "p", "t", "i", "o", "n", "s">>, <<"h", "e", "a", "d">>}

EndpointInfo(path, method, op) ==
    [path |-> path, method |-> toUpperCase(method), summary |-> op.summary,
     description |-> op.description, operationId |-> op.operationId,
     tags |-> op.tags]

\* the key compared as it is written, toLowerCase left out
RECURSIVE ItemEndpointsCaseSensitive(_, _)
ItemEndpointsCaseSensitive(path, entries) ==
    IF entries = <<>> THEN <<>>
    ELSE (IF entries[1].k \in HttpMethods
          THEN <<EndpointInfo(path, entries[1].k, entries[1].v)>>
          ELSE <<>>) \o ItemEndpointsCaseSensitive(path, Tail(entries))

\* the inner loop of getEndpoints over Object.entries(pathItem)
RECURSIVE ItemEndpoints(_, _)
ItemEndpoints(path, entries) ==
    IF entries = <<>> THEN <<>>
    ELSE (IF toLowerCase(entries[1].k) \in HttpMethods
          THEN <<EndpointInfo(path, entries[1].k, entries[1].v)>>
          ELSE <<>>) \o ItemEndpoints(path, Tail(entries))

\* the outer loop of getEndpoints over Object.entries(swaggerDoc.paths);
\* Object.entries of a null path item throws
RECURSIVE PathsEndpoints(_)
PathsEndpoints(paths) ==
    IF paths = <<>> THEN Returned(<<>>)
    ELSE IF paths[1].v.kind = "null" THEN Threw("TypeError")
    ELSE LET rest == PathsEndpoints(Tail(paths)) IN
         IF rest.threw THEN rest
         ELSE Returned(ItemEndpoints(paths[1].k, paths[1].v.entries) \o rest.val)

getEndpoints(swaggerDoc) ==
    IF swaggerDoc.kind = "null" \/ ~IsDefined(swaggerDoc.paths)
    THEN Threw("TypeError")
    ELSE PathsEndpoints(Val(swaggerDoc.paths))

\* components.schemas when present, definitions otherwise
getSchemasByPresence(swaggerDoc) ==
    IF IsDefined(swaggerDoc.schemas) THEN Val(swaggerDoc.schemas)
    ELSE IF IsDefined(swaggerDoc.definitions) THEN Val(swaggerDoc.definitions)
    ELSE <<>>

getSchemas(swaggerDoc) ==
    IF Truthy(swaggerDoc.openapi)
    THEN (IF IsDefined(swaggerDoc.schemas) THEN Val(swaggerDoc.schemas) ELSE <<>>)
    ELSE (IF IsDefined(swaggerDoc.definitions) THEN Val(swaggerDoc.definitions) ELSE <<>>)

\* endpoint.tags && endpoint.tags.includes(tag)
HasTag(endpoint, tag) ==
    IsDefined(endpoint.tags)
    /\ \E i \in 1..Len(Val(endpoint.tags)) : Val(endpoint.tags)[i] = tag

getEndpointsByTag(swaggerDoc, tag) ==
    LET all == getEndpoints(swaggerDoc) IN
    IF all.threw THEN all
    ELSE Returned(SelectSeq(all.val, LAMBDA e : HasTag(e, tag)))

OrEmpty(o) == IF IsDefined(o) THEN Val(o) ELSE <<>>

\* the tags left out of the text
searchableTextNoTags(endpoint) ==
    toLowerCase(joinSpace(<<endpoint.path, endpoint.method, OrEmpty(endpoint.summary),
                            OrEmpty(endpoint.description), OrEmpty(endpoint.operationId)>>))

searchableText(endpoint) ==
    toLowerCase(joinSpace(<<endpoint.path, endpoint.method, OrEmpty(endpoint.summary),
                            OrEmpty(endpoint.description), OrEmpty(endpoint.operationId)>>
                          \o OrEmpty(endpoint.tags)))

searchEndpoints(swaggerDoc, query) ==
    LET all == getEndpoints(swaggerDoc) IN
    IF all.threw THEN all
    ELSE Returned(SelectSeq(all.val,
                            LAMBDA e : includes(searchableText(e), toLowerCase(query))))

\* reads this.swaggerConfig
getApiSources ==
    IF swaggerConfig.kind = "null" \/ ~IsDefined(swaggerConfig.urls)
    THEN <<>>
    ELSE [i \in 1..Len(Val(swaggerConfig.urls)) |-> [name |-> Val(swaggerConfig.urls)[i].name]]

\* reads this.combinedDocs; undefined when the name is not a key
getDocBySource(sourceName) ==
    IF HasKey(combinedDocs, sourceName) THEN Some(Get(combinedDocs, sourceName))
    ELSE Undefined

---------------------------------------------------------------------------
(* The merge of one fetched document into the accumulators of the loop of   *)
(* fetchSwaggerDoc: allPaths, allSchemas, allTags, tagSet                    *)

NoLocals == [allPaths |-> <<>>, allSchemas |-> <<>>, allTags |-> <<>>, tagSet |-> {}]

\* { ...doc, source: apiConfig.name }
WithSource(doc, name) ==
    [(IF doc.kind = "object" THEN doc ELSE EmptyObject) EXCEPT !.source = name]

\* doc.paths is read (Object.keys(doc.paths)) before anything is merged
MergeThrows(doc) == doc.kind = "null" \/ ~IsDefined(doc.paths)

\* on a path that is already there the methods of the two path items are united
RECURSIVE MergePathItemsPerMethod(_, _)
MergePathItemsPerMethod(allPaths, entries) ==
    IF entries = <<>> THEN allPaths
    ELSE MergePathItemsPerMethod(
            IF HasKey(allPaths, entries[1].k)
            THEN Put(allPaths, entries[1].k,
                     PathItem(ObjectAssign(Get(allPaths, entries[1].k).entries,
                                           entries[1].v.entries)))
            ELSE Put(allPaths, entries[1].k, entries[1].v),
            Tail(entries))

MergePathsPerMethod(allPaths, doc) == MergePathItemsPerMethod(allPaths, Val(doc.paths))

\* for (const [path, pathItem] of Object.entries(doc.paths)) allPaths[path] = pathItem
MergePaths(allPaths, doc) == ObjectAssign(allPaths, Val(doc.paths))

\* if (doc.components?.schemas) ... else if (doc.definitions) ...
MergeSchemas(allSchemas, doc) ==
    IF IsDefined(doc.schemas) THEN ObjectAssign(allSchemas, Val(doc.schemas))
    ELSE IF IsDefined(doc.definitions) THEN ObjectAssign(allSchemas, Val(doc.definitions))
    ELSE allSchemas

\* a tag whose name was seen takes the place of the one kept
RECURSIVE MergeTagListLastWins(_, _)
MergeTagListLastWins(loc, tags) ==
    IF tags = <<>> THEN loc
    ELSE MergeTagListLastWins(
            IF tags[1].name \in loc.tagSet
            THEN [loc EXCEPT !.allTags =
                    [i \in 1..Len(@) |-> IF @[i].name = tags[1].name THEN tags[1] ELSE @[i]]]
            ELSE [loc EXCEPT !.tagSet = @ \cup {tags[1].name},
                             !.allTags = Append(@, tags[1])],
            Tail(tags))

\* for (const tag of doc.tags) if (!tagSet.has(tag.name)) { tagSet.add; allTags.push }
RECURSIVE MergeTagList(_, _)
MergeTagList(loc, tags) ==
    IF tags = <<>> THEN loc
    ELSE MergeTagList(
            IF tags[1].name \in loc.tagSet THEN loc
            ELSE [loc EXCEPT !.tagSet = @ \cup {tags[1].name},
                             !.allTags = Append(@, tags[1])],
            Tail(tags))

MergeTags(loc, doc) ==
    IF IsDefined(doc.tags) THEN MergeTagList(loc, Val(doc.tags)) ELSE loc

\* the body of the loop after combinedDocs.set, for a document that was fetched
MergeDoc(loc, doc) ==
    IF MergeThrows(doc) THEN loc
    ELSE MergeTags([loc EXCEPT !.allPaths = MergePaths(@, doc),
                               !.allSchemas = MergeSchemas(@, doc)], doc)

\* Map.prototype.set: a key already present keeps its place in the iteration order
MapSet(map, key, v) == Put(map, key, v)

\* this.combinedDocs.values().next().value
FirstDoc(map) == IF map = <<>> THEN Undefined ELSE Some(map[1].v)

CombinedInfo(count) ==
    [title |-> "Combined API Documentation", version |-> "1.0.0",
     description |-> "Combined documentation from " \o ToString(count) \o " API sources"]

\* the sections that stayed empty left out of the literal
CombinedDocOmitsEmpty(firstDoc, count, loc) ==
    [EmptyObject EXCEPT
        !.openapi = IF IsDefined(firstDoc) THEN Val(firstDoc).openapi ELSE NoString,
        !.swagger = IF IsDefined(firstDoc) THEN Val(firstDoc).swagger ELSE NoString,
        !.info = Some(CombinedInfo(count)),
        !.paths = IF loc.allPaths = <<>> THEN Undefined ELSE Some(loc.allPaths),
        !.schemas = IF loc.allSchemas = <<>> THEN Undefined ELSE Some(loc.allSchemas),
        !.securitySchemes = IF IsDefined(firstDoc) THEN Val(firstDoc).securitySchemes
                            ELSE Undefined,
        !.tags = IF loc.allTags = <<>> THEN Undefined ELSE Some(loc.allTags)]

\* the combinedDoc literal
CombinedDoc(firstDoc, count, loc) ==
    [EmptyObject EXCEPT
        !.openapi = IF IsDefined(firstDoc) THEN Val(firstDoc).openapi ELSE NoString,
        !.swagger = IF IsDefined(firstDoc) THEN Val(firstDoc).swagger ELSE NoString,
        !.info = Some(CombinedInfo(count)),
        !.paths = Some(loc.allPaths),
        !.schemas = Some(loc.allSchemas),
        !.securitySchemes = IF IsDefined(firstDoc) THEN Val(firstDoc).securitySchemes
                            ELSE Undefined,
        !.tags = Some(loc.allTags)]

---------------------------------------------------------------------------
(* The remote calls of SwaggerFetcher *)

\* fetchSwaggerConfig on the answer to GET <base>/swagger-config.json
fetchSwaggerConfig(resp) ==
    IF resp.status = "error" THEN Threw("Failed to fetch swagger-config.json")
    ELSE IF JSONparse(resp.body).threw THEN Threw("Failed to fetch swagger-config.json")
    ELSE JSONparse(resp.body)

\* fetchIndividualSwaggerDoc on the answer to GET <base>/<path>
fetchIndividualSwaggerDoc(resp) ==
    IF resp.status = "error" THEN Threw("Failed to fetch individual Swagger doc")
    ELSE IF TrimIsEmpty(resp.body) THEN Threw("Failed to fetch individual Swagger doc")
    ELSE IF Decode(resp.body).threw THEN Threw("Failed to fetch individual Swagger doc")
    ELSE Decode(resp.body)

\* a body that does not parse taken for an empty document
fetchDirectLenient(resp) ==
    IF resp.status = "error" THEN Threw("Failed to fetch Swagger documentation")
    ELSE IF Decode(resp.body).threw THEN Returned(NullDoc)
    ELSE Decode(resp.body)

\* the direct branch of fetchSwaggerDoc on the answer to GET <url>
fetchDirect(resp) ==
    IF resp.status = "error" THEN Threw("Failed to fetch Swagger documentation")
    ELSE IF Decode(resp.body).threw THEN Threw("Failed to fetch Swagger documentation")
    ELSE Decode(resp.body)

\* the comparison turned round
IsFreshReversed(entry, time, ttl) == time - entry.timestamp > ttl

\* an entry as old as the TTL still counts as fresh
IsFreshInclusive(entry, time, ttl) == time - entry.timestamp <= ttl

\* an entry, once stored, is served whatever its age
IsFreshOnceStored(entry, time, ttl) == time >= entry.timestamp

\* Date.now() - cached.timestamp < this.config.cacheTTL
IsFresh(entry, time, ttl) == time - entry.timestamp < ttl

---------------------------------------------------------------------------
(* AuthManager *)

\* Config.auth.credentials; a field that is not given is NoString
Credentials(username, password, token, apiKey, apiKeyHeader) ==
    [username |-> username, password |-> password, token |-> token,
     apiKey |-> apiKey, apiKeyHeader |-> apiKeyHeader]

\* Config.auth; credentials is optional
Auth(type, credentials) == [type |-> type, credentials |-> credentials]

\* the default of ConfigSchema
NoAuth == Auth("none", Undefined)

\* auth.credentials?.field
Credential(auth, field) ==
    IF IsDefined(auth.credentials) THEN Val(auth.credentials)[field] ELSE NoString

\* an AxiosRequestConfig: headers is optional, a map from header name to value
Request(headers, method, data) ==
    [headers |-> headers, method |-> method, data |-> data, responseType |-> NoString]

\* config || {}
EmptyRequest == Request(Undefined, NoString, NoString)

\* Buffer.from(text).toString('base64')
Base64(text) == "base64(" \o text \o ")"

\* requestConfig.headers[name] = value, after requestConfig.headers = headers || {}
SetHeader(request, name, value) ==
    [request EXCEPT !.headers = Some(Put(OrEmpty(@), name, value))]

\* every branch taken as soon as the credential is given, empty or not
applyAuthWhenGiven(request, auth) ==
    IF auth.type = "none" THEN request
    ELSE LET rc == [request EXCEPT !.headers = Some(OrEmpty(@))] IN
         CASE auth.type = "basic" ->
                IF Credential(auth, "username") # NoString
                   /\ Credential(auth, "password") # NoString
                THEN SetHeader(rc, "Authorization",
                               "Basic " \o Base64(Credential(auth, "username") \o ":"
                                                  \o Credential(auth, "password")))
                ELSE rc
           [] auth.type = "bearer" ->
                IF Credential(auth, "token") # NoString
                THEN SetHeader(rc, "Authorization", "Bearer " \o Credential(auth, "token"))
                ELSE rc
           [] auth.type = "apiKey" ->
                IF Credential(auth, "apiKey") # NoString
                THEN SetHeader(rc,
                               IF Truthy(Credential(auth, "apiKeyHeader"))
                               THEN Credential(auth, "apiKeyHeader") ELSE "X-API-Key",
                               Credential(auth, "apiKey"))
                ELSE rc
           [] OTHER -> rc

\* AuthManager.applyAuth: the request it returns
applyAuth(request, auth) ==
    IF auth.type = "none" THEN request
    ELSE LET rc == [request EXCEPT !.headers = Some(OrEmpty(@))] IN
         CASE auth.type = "basic" ->
                IF Truthy(Credential(auth, "username")) /\ Truthy(Credential(auth, "password"))
                THEN SetHeader(rc, "Authorization",
                               "Basic " \o Base64(Credential(auth, "username") \o ":"
                                                  \o Credential(auth, "password")))
                ELSE rc
           [] auth.type = "bearer" ->
                IF Truthy(Credential(auth, "token"))
                THEN SetHeader(rc, "Authorization", "Bearer " \o Credential(auth, "token"))
                ELSE rc
           [] auth.type = "apiKey" ->
                IF Truthy(Credential(auth, "apiKey"))
                THEN SetHeader(rc,
                               IF Truthy(Credential(auth, "apiKeyHeader"))
                               THEN Credential(auth, "apiKeyHeader") ELSE "X-API-Key",
                               Credential(auth, "apiKey"))
                ELSE rc
           [] OTHER -> rc

\* authenticatedRequest up to the GET: the request is decorated and its response
\* type is forced to text
authenticatedRequest ==
    /\ requestConfig.responseType = NoString
    /\ requestConfig' = [applyAuth(requestConfig, config.auth) EXCEPT !.responseType = "text"]
    /\ UNCHANGED <<now, config, cache, combinedDocs, swaggerConfig, cachedSwaggerDoc,
                   calls, last, succeeded, ncalls>>

---------------------------------------------------------------------------
(* Tool calls.  A frame is one invocation of the CallTool handler that is   *)
(* waiting at an await; reqs, hit, prior, at and outcomes record what the   *)
(* invocation did and found, and are read by no action.                     *)

NoUrl == Url("", "", "")

Idle ==
    [pc |-> "idle", tool |-> "none", url |-> NoUrl, hit |-> FALSE, reqs |-> <<>>,
     prior |-> Undefined, at |-> 0, verdict |-> Undefined,
     urls |-> <<>>, idx |-> 0, loc |-> NoLocals, outcomes |-> <<>>,
     ret |-> Returned(NullDoc)]

NoDocumentLoaded == "No Swagger documentation loaded. Please fetch a Swagger document first."

NoArgs == [kind |-> "none", value |-> Undefined]

BadArgs == [kind |-> "bad", value |-> Undefined]

Args(value) == [kind |-> "ok", value |-> Some(value)]

\* what a call of the handler ends with: the request it answered (tool, args) and
\* either the content returned or the exception that left the handler
NoResponse ==
    [tool |-> "none", args |-> NoArgs, escaped |-> FALSE, error |-> FALSE,
     message |-> "", result |-> <<>>]

\* the switch without the try/catch: an exception leaves the handler
CallToolResultNoCatch(tool, args, r) ==
    IF r.threw
    THEN [tool |-> tool, args |-> args, escaped |-> TRUE, error |-> FALSE,
          message |-> r.msg, result |-> <<>>]
    ELSE [tool |-> tool, args |-> args, escaped |-> FALSE, error |-> FALSE,
          message |-> "", result |-> r.val]

\* the try/catch around the switch of the CallTool handler
CallToolResult(tool, args, r) ==
    IF r.threw
    THEN [tool |-> tool, args |-> args, escaped |-> FALSE, error |-> TRUE,
          message |-> r.msg, result |-> <<>>]
    ELSE [tool |-> tool, args |-> args, escaped |-> FALSE, error |-> FALSE,
          message |-> "", result |-> r.val]

\* fetchSwaggerDoc(url) up to its first await: the cache lookup, then the first GET
BeginFetch(p, tool, url) ==
    LET cached == cache[url]
        frame == [Idle EXCEPT !.tool = tool, !.url = url, !.prior = cached, !.at = now]
    IN  calls' = [calls EXCEPT ![p] =
            IF IsDefined(cached) /\ IsFresh(Val(cached), now, config.cacheTTL)
            THEN [frame EXCEPT !.pc = "ret", !.hit = TRUE,
                               !.ret = Returned(Val(cached).data)]
            ELSE IF IsDirectUrl(url)
            THEN [frame EXCEPT !.pc = "awaitDirect", !.reqs = <<url>>]
            ELSE [frame EXCEPT !.pc = "awaitConfig",
                               !.reqs = <<ConfigUrl(BaseUrl(url))>>]]

\* case 'fetch_swagger' and case 'validate_swagger' up to the await
CallFetchTool(p, tool, args) ==
    /\ calls[p].pc = "idle"
    /\ tool \in {"fetch_swagger", "validate_swagger"}
    /\ ncalls' = ncalls + 1
    /\ IF args.kind = "none"
       THEN /\ last' = CallToolResult(tool, args, Threw("No arguments provided"))
            /\ UNCHANGED calls
       ELSE IF args.kind = "bad"
       THEN /\ last' = CallToolResult(tool, args, Threw("ZodError"))
            /\ UNCHANGED calls
       ELSE /\ BeginFetch(p, tool, Val(args.value))
            /\ UNCHANGED last
    /\ UNCHANGED <<requestConfig, now, config, cache, combinedDocs, swaggerConfig, cachedSwaggerDoc,
                   succeeded>>

\* the outcome is stored whether the fetch failed or not
DirectResponseStoresFailure(p, resp) ==
    LET f == calls[p]
        r == fetchDirect(resp)
    IN  /\ f.pc = "awaitDirect"
        /\ calls' = [calls EXCEPT ![p] = [f EXCEPT !.pc = "ret", !.ret = r]]
        /\ cache' = [cache EXCEPT ![f.url] = Some([data |-> r.val, timestamp |-> now])]
        /\ UNCHANGED <<requestConfig, now, config, combinedDocs, swaggerConfig, cachedSwaggerDoc,
                       last, succeeded, ncalls>>

\* the direct branch of fetchSwaggerDoc after the GET of the document
DirectResponse(p, resp) ==
    LET f == calls[p]
        r == fetchDirect(resp)
    IN  /\ f.pc = "awaitDirect"
        /\ calls' = [calls EXCEPT ![p] = [f EXCEPT !.pc = "ret", !.ret = r]]
        /\ cache' = IF r.threw THEN cache
                    ELSE [cache EXCEPT ![f.url] = Some([data |-> r.val, timestamp |-> now])]
        /\ UNCHANGED <<requestConfig, now, config, combinedDocs, swaggerConfig, cachedSwaggerDoc,
                       last, succeeded, ncalls>>

\* fetchSwaggerDoc after the GET of the registry: this.swaggerConfig is assigned,
\* the urls are checked, combinedDocs is cleared and the first document is requested
ConfigResponse(p, resp) ==
    LET f == calls[p]
        r == fetchSwaggerConfig(resp)
        noUrls == r.val.kind = "null" \/ ~IsDefined(r.val.urls)
                  \/ Len(Val(r.val.urls)) = 0
    IN  /\ f.pc = "awaitConfig"
        /\ swaggerConfig' = IF r.threw THEN swaggerConfig ELSE r.val
        /\ IF r.threw
           THEN /\ calls' = [calls EXCEPT ![p] = [f EXCEPT !.pc = "ret",
                        !.ret = Threw("Failed to fetch Swagger documentation")]]
                /\ UNCHANGED combinedDocs
           ELSE IF noUrls
           THEN /\ calls' = [calls EXCEPT ![p] = [f EXCEPT !.pc = "ret",
                        !.ret = Threw("Failed to fetch Swagger documentation")]]
                /\ UNCHANGED combinedDocs
           ELSE /\ combinedDocs' = <<>>
                /\ calls' = [calls EXCEPT ![p] = [f EXCEPT !.pc = "awaitDoc",
                        !.urls = Val(r.val.urls), !.idx = 1,
                        !.reqs = Append(@, FullUrl(BaseUrl(f.url), Val(r.val.urls)[1].url))]]
        /\ UNCHANGED <<requestConfig, now, config, cache, cachedSwaggerDoc, last, succeeded, ncalls>>

\* the loop stopped by the first entry that fails
LoopContinuesUnlessFailed(f, r) == ~r.threw /\ f.idx < Len(f.urls)

\* for (const apiConfig of this.swaggerConfig.urls) with the try/catch inside the
\* loop: the next entry is taken whatever became of this one
LoopContinues(f, r) == f.idx < Len(f.urls)

\* one turn of the loop over the registry after the GET of a document, and, after
\* the last turn, the combined document and its cache entry
DocResponse(p, resp) ==
    LET f == calls[p]
        apiConfig == f.urls[f.idx]
        r == fetchIndividualSwaggerDoc(resp)
        docs == IF r.threw THEN combinedDocs
                ELSE MapSet(combinedDocs, apiConfig.name, WithSource(r.val, apiConfig.name))
        loc == IF r.threw THEN f.loc ELSE MergeDoc(f.loc, r.val)
        after == [f EXCEPT !.loc = loc,
                     !.outcomes = Append(@, [name |-> apiConfig.name, ok |-> ~r.threw,
                                             doc |-> r.val])]
        \* this.swaggerConfig.urls.length reads the field, not the array being iterated
        lengthThrows == swaggerConfig.kind = "null" \/ ~IsDefined(swaggerConfig.urls)
        combinedDoc == CombinedDoc(FirstDoc(docs), Len(Val(swaggerConfig.urls)), loc)
    IN  /\ f.pc = "awaitDoc"
        /\ combinedDocs' = docs
        /\ IF LoopContinues(f, r)
           THEN /\ calls' = [calls EXCEPT ![p] = [after EXCEPT !.idx = f.idx + 1,
                        !.reqs = Append(@, FullUrl(BaseUrl(f.url), f.urls[f.idx + 1].url))]]
                /\ UNCHANGED cache
           ELSE IF lengthThrows
           THEN /\ calls' = [calls EXCEPT ![p] = [after EXCEPT !.pc = "ret",
                        !.ret = Threw("Failed to fetch Swagger documentation")]]
                /\ UNCHANGED cache
           ELSE /\ calls' = [calls EXCEPT ![p] = [after EXCEPT !.pc = "ret",
                        !.ret = Returned(combinedDoc)]]
                /\ cache' = [cache EXCEPT ![f.url] =
                                Some([data |-> combinedDoc, timestamp |-> now])]
        /\ UNCHANGED <<requestConfig, now, config, swaggerConfig, cachedSwaggerDoc, last, succeeded,
                       ncalls>>

\* the summary that case 'fetch_swagger' builds from cachedSwaggerDoc
FetchSummary(doc) ==
    IF doc.kind = "null" \/ ~IsDefined(doc.info) \/ ~IsDefined(doc.paths)
    THEN Threw("TypeError")
    ELSE Returned([success |-> TRUE, info |-> Val(doc.info),
                   pathCount |-> Len(Val(doc.paths)), tags |-> doc.tags])

\* case 'fetch_swagger' after the await: cachedSwaggerDoc is assigned, then summarised
ResumeFetchSwagger(p) ==
    LET f == calls[p] IN
    /\ f.pc = "ret"
    /\ f.tool = "fetch_swagger"
    /\ cachedSwaggerDoc' = IF f.ret.threw THEN cachedSwaggerDoc ELSE f.ret.val
    /\ last' = CallToolResult(f.tool, Args(f.url),
                               IF f.ret.threw THEN f.ret ELSE FetchSummary(f.ret.val))
    /\ succeeded' = (succeeded \/ ~last'.error)
    /\ calls' = [calls EXCEPT ![p] = Idle]
    /\ UNCHANGED <<requestConfig, now, config, cache, combinedDocs, swaggerConfig, ncalls>>

\* validateSwaggerDoc after fetchSwaggerDoc returned: the answer of the validator
\* (SwaggerParser.validate), which accepts the document or throws
ValidatorResponse(p, accepted) ==
    LET f == calls[p] IN
    /\ f.pc = "ret"
    /\ f.tool = "validate_swagger"
    /\ ~f.ret.threw
    /\ f.ret.val.kind = "null" => ~accepted
    /\ calls' = [calls EXCEPT ![p] = [f EXCEPT !.pc = "validated",
                                                !.verdict = Some(accepted)]]
    /\ UNCHANGED <<requestConfig, now, config, cache, combinedDocs, swaggerConfig, cachedSwaggerDoc,
                   last, succeeded, ncalls>>

\* validateSwaggerDoc without its catch: what fetchSwaggerDoc or the validator
\* throws is thrown on
validateSwaggerDocNoCatch(ret, verdict) ==
    IF ret.threw THEN ret
    ELSE IF ~Val(verdict) THEN Threw("validation failed")
    ELSE Returned(TRUE)

\* validateSwaggerDoc: true when neither fetchSwaggerDoc nor the validator threw,
\* false when either did
validateSwaggerDoc(ret, verdict) ==
    IF ret.threw THEN Returned(FALSE)
    ELSE IF ~Val(verdict) THEN Returned(FALSE)
    ELSE Returned(TRUE)

ValidateSummary(isValid) ==
    IF isValid.threw THEN isValid
    ELSE Returned([valid |-> isValid.val,
                   message |-> IF isValid.val THEN "Swagger document is valid"
                               ELSE "Swagger document is invalid"])

\* case 'validate_swagger' after the await
ResumeValidateSwagger(p) ==
    LET f == calls[p] IN
    /\ f.tool = "validate_swagger"
    /\ \/ f.pc = "ret" /\ f.ret.threw
       \/ f.pc = "validated"
    /\ last' = CallToolResult(f.tool, Args(f.url),
                              ValidateSummary(validateSwaggerDoc(f.ret, f.verdict)))
    /\ calls' = [calls EXCEPT ![p] = Idle]
    /\ UNCHANGED <<requestConfig, now, config, cache, combinedDocs, swaggerConfig, cachedSwaggerDoc,
                   succeeded, ncalls>>

---------------------------------------------------------------------------
(* The synchronous cases of the CallTool handler *)

QueryTools == {"get_endpoints", "search_endpoints", "get_schema", "get_api_info",
               "get_api_sources", "get_doc_by_source"}

\* the tools that throw when args is undefined
NeedsArgs == {"search_endpoints", "get_schema", "get_doc_by_source"}

\* the tools that parse args against a schema
ParsesArgs == {"get_endpoints", "search_endpoints", "get_schema", "get_doc_by_source"}

ApiInfo(doc) ==
    IF ~IsDefined(doc.paths) THEN Threw("TypeError")
    ELSE Returned([info |-> doc.info,
                   version |-> IF Truthy(doc.openapi) THEN doc.openapi ELSE doc.swagger,
                   tags |-> doc.tags, pathCount |-> Len(Val(doc.paths)),
                   schemaCount |-> Len(getSchemas(doc)),
                   schemaNames |-> ObjectKeys(getSchemas(doc))])

SchemaByName(doc, schemaName) ==
    IF HasKey(getSchemas(doc), schemaName)
    THEN Returned(Get(getSchemas(doc), schemaName))
    ELSE Threw("Schema not found")

SourceSummary(sourceName) ==
    LET sourceDoc == getDocBySource(sourceName) IN
    IF ~IsDefined(sourceDoc) THEN Threw("API source not found")
    ELSE IF ~IsDefined(Val(sourceDoc).paths) THEN Threw("TypeError")
    ELSE Returned([source |-> sourceName, info |-> Val(sourceDoc).info,
                   pathCount |-> Len(Val(Val(sourceDoc).paths)),
                   schemas |-> getSchemas(Val(sourceDoc))])

\* the body of one synchronous case: what it returns or throws
QueryCase(name, args) ==
    IF name \notin QueryTools THEN Threw("Unknown tool")
    ELSE IF cachedSwaggerDoc.kind = "null" THEN Threw(NoDocumentLoaded)
    ELSE IF name \in NeedsArgs /\ args.kind = "none" THEN Threw("No arguments provided")
    ELSE IF name \in ParsesArgs /\ args.kind = "bad" THEN Threw("ZodError")
    ELSE CASE name = "get_endpoints" ->
                IF args.kind = "ok" /\ Val(args.value) # <<>>
                THEN getEndpointsByTag(cachedSwaggerDoc, Val(args.value))
                ELSE getEndpoints(cachedSwaggerDoc)
           [] name = "search_endpoints" -> searchEndpoints(cachedSwaggerDoc, Val(args.value))
           [] name = "get_schema" -> SchemaByName(cachedSwaggerDoc, Val(args.value))
           [] name = "get_api_info" -> ApiInfo(cachedSwaggerDoc)
           [] name = "get_api_sources" ->
                Returned([sources |-> getApiSources, count |-> Len(getApiSources)])
           [] name = "get_doc_by_source" -> SourceSummary(Val(args.value))

\* a call of a synchronous tool, or of a name that is no tool
CallQueryTool(name, args) ==
    /\ ncalls' = ncalls + 1
    /\ last' = CallToolResult(name, args, QueryCase(name, args))
    /\ UNCHANGED <<requestConfig, now, config, cache, combinedDocs, swaggerConfig, cachedSwaggerDoc,
                   calls, succeeded>>

\* time passes
Tick ==
    /\ now' = now + 1
    /\ UNCHANGED <<requestConfig, config, cache, combinedDocs, swaggerConfig, cachedSwaggerDoc,
                   calls, last, succeeded, ncalls>>

---------------------------------------------------------------------------
(* Inputs: the URLs asked for, what the remote hosts answer, the arguments  *)

UrlDirect == Url("http://h", "api", ".json")

UrlHub == Url("http://h", "docs", "")

UrlHubG == Url("http://g", "docs", "")

AllUrls == {UrlDirect, UrlHub, UrlHubG}

SrcA == Source("a", ".json", "A")

SrcB == Source("b", ".yaml", "B")

\* a second entry under the name A
SrcA2 == Source("c", ".json", "A")

RegAB == ConfigObject(Some(<<SrcA, SrcB>>))

\* every registry of 1..n entries
RECURSIVE Registries(_)
Registries(n) ==
    IF n = 0 THEN {}
    ELSE Registries(n - 1)
         \cup {ConfigObject(Some(us)) : us \in [1..n -> {SrcA, SrcB, SrcA2}]}

Procs == {1, 2}

MaxCalls == 3

MaxCacheCalls == 2

MaxQueryCalls == 3

MaxConcCalls == 2

MaxFlightCalls == 3

MaxHubsCalls == 3

MaxTime == 2

MaxTTL == 1

MaxSources == 3

Init ==
    /\ now = 0
    /\ config \in [cacheTTL : 0..MaxTTL, auth : {NoAuth}]
    /\ requestConfig = EmptyRequest
    /\ cache = [u \in AllUrls |-> Undefined]
    /\ combinedDocs = <<>>
    /\ swaggerConfig = NullConfig
    /\ cachedSwaggerDoc = NullDoc
    /\ calls = [p \in Procs |-> Idle]
    /\ last = NoResponse
    /\ succeeded = FALSE
    /\ ncalls = 0

---------------------------------------------------------------------------
(* The cache: fetches of a direct and of a hub URL while time passes *)

CacheDocs == {HttpError, HttpOk(Json(DocA)), HttpOk(Yaml(DocB))}

CacheConfigs == {HttpError, HttpOk(Json(ConfigObject(Some(<<SrcA>>))))}

NextCache ==
    \/ /\ ncalls < MaxCacheCalls
       /\ \E tool \in {"fetch_swagger", "validate_swagger"}, url \in {UrlDirect, UrlHub} :
             CallFetchTool(1, tool, Args(url))
    \/ \E resp \in CacheDocs : DirectResponse(1, resp)
    \/ \E resp \in CacheConfigs : ConfigResponse(1, resp)
    \/ \E resp \in CacheDocs : DocResponse(1, resp)
    \/ ResumeFetchSwagger(1)
    \/ \E accepted \in BOOLEAN : ValidatorResponse(1, accepted)
    \/ ResumeValidateSwagger(1)
    \/ now < MaxTime /\ Tick

SpecCache == Init /\ [][NextCache]_vars

---------------------------------------------------------------------------
(* The merge: one fetch of a hub URL from the initial state, over every     *)
(* registry of up to MaxSources entries and every answer to each entry,     *)
(* followed by a query                                                      *)

HubDocs == {HttpError, HttpOk(EmptyBody), HttpOk(GarbageBody), HttpOk(Json(DocA)),
            HttpOk(Yaml(DocB)), HttpOk(Json(DocC)), HttpOk(Json(DocNoPaths))}

HubConfigs ==
    {HttpError, HttpOk(GarbageBody), HttpOk(Json(NullConfig)),
     HttpOk(Json(ConfigObject(Undefined))), HttpOk(Json(ConfigObject(Some(<<>>))))}
    \cup {HttpOk(Json(reg)) : reg \in Registries(MaxSources)}

HubQueries == {<<"get_schema", Args("S")>>, <<"get_api_sources", NoArgs>>,
               <<"get_doc_by_source", Args("A")>>, <<"get_endpoints", NoArgs>>}

NextHub ==
    \/ ncalls = 0 /\ CallFetchTool(1, "fetch_swagger", Args(UrlHub))
    \/ \E resp \in HubConfigs : ConfigResponse(1, resp)
    \/ \E resp \in HubDocs : DocResponse(1, resp)
    \/ ResumeFetchSwagger(1)
    \/ /\ ncalls = 1
       /\ calls[1].pc = "idle"
       /\ \E q \in HubQueries : CallQueryTool(q[1], q[2])

SpecHub == Init /\ [][NextHub]_vars

---------------------------------------------------------------------------
(* The decorator: one request is prepared under every credential             *)
(* configuration                                                             *)

CredentialValues == {NoString, "", "u"}

AuthSpecs ==
    {Auth(type, Undefined) : type \in {"none", "basic", "bearer", "apiKey"}}
    \cup {Auth(type, Some(Credentials(username, password, token, apiKey, apiKeyHeader))) :
            type \in {"none", "basic", "bearer", "apiKey"},
            username \in CredentialValues, password \in CredentialValues,
            token \in CredentialValues, apiKey \in CredentialValues,
            apiKeyHeader \in {"X-API-Key", "X-Key"}}

Requests ==
    {Request(headers, method, data) :
        headers \in {Undefined, Some(<<>>),
                     Some(<<Entry("Accept", "text"), Entry("Authorization", "old")>>),
                     Some(<<Entry("X-Key", "old")>>)},
        method \in {NoString, "get"},
        data \in {NoString, "body"}}

InitAuth ==
    /\ now = 0
    /\ config \in [cacheTTL : {MaxTTL}, auth : AuthSpecs]
    /\ requestConfig \in Requests
    /\ cache = [u \in AllUrls |-> Undefined]
    /\ combinedDocs = <<>>
    /\ swaggerConfig = NullConfig
    /\ cachedSwaggerDoc = NullDoc
    /\ calls = [p \in Procs |-> Idle]
    /\ last = NoResponse
    /\ succeeded = FALSE
    /\ ncalls = 0

NextAuth == authenticatedRequest

SpecAuth == InitAuth /\ [][NextAuth]_vars

---------------------------------------------------------------------------
(* Re-entrant calls: the handler is entered again while an earlier call     *)
(* waits at an await of the pipeline                                        *)

ConcDocs == {HttpError, HttpOk(Json(DocA)), HttpOk(Yaml(DocB))}

ConcConfigs == {HttpOk(Json(ConfigObject(Undefined))),
                HttpOk(Json(ConfigObject(Some(<<SrcB>>)))),
                HttpOk(Json(RegAB))}

ConcQueries == {<<"get_api_sources", NoArgs>>, <<"get_doc_by_source", Args("A")>>,
                <<"get_doc_by_source", Args("B")>>}

NextConc ==
    \/ /\ ncalls < MaxConcCalls
       /\ \E p \in Procs, url \in {UrlHub, UrlHubG} :
             CallFetchTool(p, "fetch_swagger", Args(url))
    \/ /\ ncalls < MaxConcCalls
       /\ \E q \in ConcQueries : CallQueryTool(q[1], q[2])
    \/ \E p \in Procs, resp \in ConcConfigs : ConfigResponse(p, resp)
    \/ \E p \in Procs, resp \in ConcDocs : DocResponse(p, resp)
    \/ \E p \in Procs : ResumeFetchSwagger(p)

SpecConc == Init /\ [][NextConc]_vars

---------------------------------------------------------------------------
(* Overlapping fetches: fetch_swagger is called again, for the same URL or   *)
(* another, while an earlier call waits at an await of the pipeline          *)

FlightDocs == {HttpError, HttpOk(Json(DocA))}

FlightConfigs == {HttpError, HttpOk(Json(ConfigObject(Some(<<SrcA>>)))), HttpOk(Json(RegAB))}

NextFlight ==
    \/ /\ ncalls < MaxFlightCalls
       /\ \E p \in Procs, url \in {UrlDirect, UrlHub} :
             CallFetchTool(p, "fetch_swagger", Args(url))
    \/ \E p \in Procs, resp \in FlightDocs : DirectResponse(p, resp)
    \/ \E p \in Procs, resp \in FlightConfigs : ConfigResponse(p, resp)
    \/ \E p \in Procs, resp \in FlightDocs : DocResponse(p, resp)
    \/ \E p \in Procs : ResumeFetchSwagger(p)

SpecFlight == Init /\ [][NextFlight]_vars

---------------------------------------------------------------------------
(* The queries: a document is loaded from a direct URL and queried *)

QueryDocs == {HttpOk(Json(DocA)), HttpOk(Yaml(DocB)), HttpOk(Json(DocC)),
              HttpOk(Json(DocQ)), HttpOk(Yaml(DocM)), HttpOk(Json(DocE))}

SearchQueries == {<<>>, sPet, <<"p", "E">>, <<"p", " ", "g">>, <<"o", "p">>, sUsers,
                  <<"z", "z">>}

QueryQueries ==
    ({"get_endpoints"} \X {NoArgs, Args(sUsers)})
    \cup ({"search_endpoints"} \X {Args(q) : q \in SearchQueries})
    \cup ({"get_schema"} \X {Args("S"), Args("D"), Args("SD")})
    \cup ({"get_api_info"} \X {NoArgs})

NextQuery ==
    \/ /\ ncalls < MaxQueryCalls
       /\ CallFetchTool(1, "fetch_swagger", Args(UrlDirect))
    \/ /\ ncalls < MaxQueryCalls
       /\ calls[1].pc = "idle"
       /\ \E q \in QueryQueries : CallQueryTool(q[1], q[2])
    \/ \E resp \in QueryDocs : DirectResponse(1, resp)
    \/ ResumeFetchSwagger(1)

SpecQuery == Init /\ [][NextQuery]_vars

---------------------------------------------------------------------------
(* The queries on documents that lack a section: a document is loaded from a *)
(* direct URL, whatever it holds, and queried                                *)

PartialDocs == {HttpOk(Json(DocA)), HttpOk(Json(DocNoPaths)), HttpOk(Json(DocNullItem)),
                HttpOk(Json(DocNoInfo))}

NextPartial ==
    \/ /\ ncalls < MaxQueryCalls
       /\ CallFetchTool(1, "fetch_swagger", Args(UrlDirect))
    \/ /\ ncalls < MaxQueryCalls
       /\ calls[1].pc = "idle"
       /\ \E q \in QueryQueries : CallQueryTool(q[1], q[2])
    \/ \E resp \in PartialDocs : DirectResponse(1, resp)
    \/ ResumeFetchSwagger(1)

SpecPartial == Init /\ [][NextPartial]_vars

---------------------------------------------------------------------------
(* Two hubs: the hub URLs of two hosts are fetched one call after the other, *)
(* with the cache in use, and the sources are queried                        *)

HubsDocs == {HttpError, HttpOk(Json(DocA)), HttpOk(Yaml(DocB))}

HubsConfigs == {HttpOk(Json(ConfigObject(Some(<<SrcA>>)))),
                HttpOk(Json(ConfigObject(Some(<<SrcB>>)))),
                HttpOk(Json(RegAB))}

HubsQueries == {<<"get_api_sources", NoArgs>>, <<"get_doc_by_source", Args("A")>>,
                <<"get_doc_by_source", Args("B")>>}

NextHubs ==
    \/ /\ ncalls < MaxHubsCalls
       /\ \E url \in {UrlHub, UrlHubG} : CallFetchTool(1, "fetch_swagger", Args(url))
    \/ /\ ncalls < MaxHubsCalls
       /\ calls[1].pc = "idle"
       /\ \E q \in HubsQueries : CallQueryTool(q[1], q[2])
    \/ \E resp \in HubsConfigs : ConfigResponse(1, resp)
    \/ \E resp \in HubsDocs : DocResponse(1, resp)
    \/ ResumeFetchSwagger(1)

SpecHubs == Init /\ [][NextHubs]_vars

---------------------------------------------------------------------------
(* The tools: every tool of the server called in any order with any         *)
(* arguments, one call at a time                                            *)

ToolDocs == {HttpError, HttpOk(EmptyBody), HttpOk(BlankBody), HttpOk(GarbageBody),
             HttpOk(Json(DocA)), HttpOk(Json(DocNoInfo))}

ToolConfigs == {HttpError, HttpOk(GarbageBody), HttpOk(Json(ConfigObject(Undefined))),
                HttpOk(Json(ConfigObject(Some(<<>>)))),
                HttpOk(Json(ConfigObject(Some(<<SrcA>>))))}

ToolFetchArgs == {NoArgs, BadArgs, Args(UrlDirect), Args(UrlHub)}

ToolQueries ==
    ({"get_endpoints"} \X {NoArgs, BadArgs, Args(sUsers)})
    \cup ({"search_endpoints"} \X {NoArgs, Args(<<"P">>)})
    \cup ({"get_schema"} \X {NoArgs, Args("S"), Args("none")})
    \cup ({"get_api_info", "get_api_sources", "no_such_tool"} \X {NoArgs})
    \cup ({"get_doc_by_source"} \X {BadArgs, Args("A"), Args("none")})

Next ==
    \/ /\ ncalls < MaxCalls
       /\ \E tool \in {"fetch_swagger", "validate_swagger"}, args \in ToolFetchArgs :
             CallFetchTool(1, tool, args)
    \/ /\ ncalls < MaxCalls
       /\ calls[1].pc = "idle"
       /\ \E q \in ToolQueries : CallQueryTool(q[1], q[2])
    \/ \E resp \in ToolDocs : DirectResponse(1, resp)
    \/ \E resp \in ToolConfigs : ConfigResponse(1, resp)
    \/ \E resp \in ToolDocs : DocResponse(1, resp)
    \/ ResumeFetchSwagger(1)
    \/ \E accepted \in BOOLEAN : ValidatorResponse(1, accepted)
    \/ ResumeValidateSwagger(1)

Spec == Init /\ [][Next]_vars

\* every request sent is answered, by a response or by a failure, and every
\* continuation waiting on a settled promise is run
Settle ==
    \/ \E resp \in ToolDocs : DirectResponse(1, resp)
    \/ \E resp \in ToolConfigs : ConfigResponse(1, resp)
    \/ \E resp \in ToolDocs : DocResponse(1, resp)
    \/ ResumeFetchSwagger(1)
    \/ \E accepted \in BOOLEAN : ValidatorResponse(1, accepted)
    \/ ResumeValidateSwagger(1)

SpecLive == Spec /\ WF_vars(Settle)

---------------------------------------------------------------------------
(* Claims about the cache *)

\* p enters fetchSwaggerDoc in this step
Begins(p) == calls[p].pc = "idle" /\ calls'[p].pc # "idle"

\* the pipeline of p ends in this step
Ends(p) == calls[p].pc \in {"awaitDirect", "awaitConfig", "awaitDoc"} /\ calls'[p].pc = "ret"

Age(entry) == now - entry.timestamp

ServedFromCache(p) ==
    \A u \in AllUrls :
        (/\ Begins(p)
         /\ calls'[p].url = u
         /\ IsDefined(cache[u])
         /\ Age(Val(cache[u])) < config.cacheTTL)
        => /\ calls'[p].pc = "ret"
           /\ ~calls'[p].ret.threw
           /\ calls'[p].ret.val = Val(cache[u]).data
           /\ calls'[p].reqs = <<>>
           /\ cache' = cache

NoRequestAfterHit ==
    \A p \in Procs : calls[p].hit => calls[p].pc \in {"ret", "validated"} /\ calls[p].reqs = <<>>

\* C1: a fetch of U made while the entry of U is younger than cacheTTL returns
\* the cached document and issues no HTTP request
C1_FreshEntryServed ==
    /\ [][\A p \in Procs : ServedFromCache(p)]_vars
    /\ []NoRequestAfterHit

C1_Witness ==
    \E p \in Procs :
        /\ calls[p].pc = "ret"
        /\ calls[p].hit
        /\ calls[p].url = UrlHub
        /\ calls[p].reqs = <<>>
        /\ calls[p].ret.val = Val(cache[calls[p].url]).data

StaleRefetched(p) ==
    \A u \in AllUrls :
        /\ (Begins(p) /\ calls'[p].url = u)
           => /\ calls'[p].hit
                 <=> (IsDefined(cache[u]) /\ Age(Val(cache[u])) < config.cacheTTL)
              /\ ~calls'[p].hit
                 => /\ calls'[p].pc \in {"awaitDirect", "awaitConfig"}
                    /\ Len(calls'[p].reqs) = 1
        /\ (Ends(p) /\ calls[p].url = u /\ ~calls'[p].ret.threw)
           => cache'[u] = Some([data |-> calls'[p].ret.val, timestamp |-> now])

\* C2: the entry of U is fresh exactly when its age is below cacheTTL; a fetch of
\* U with a stale entry or none runs the pipeline with new requests and, when it
\* succeeds, replaces the entry by the new document stamped with the current time
C2_StaleEntryRefetched == [][\A p \in Procs : StaleRefetched(p)]_vars

\* an entry whose age equals cacheTTL > 0 was refetched and replaced by another document
C2_Witness ==
    \E p \in Procs :
        /\ calls[p].pc = "ret"
        /\ ~calls[p].hit
        /\ ~calls[p].ret.threw
        /\ IsDefined(calls[p].prior)
        /\ config.cacheTTL > 0
        /\ calls[p].at - Val(calls[p].prior).timestamp = config.cacheTTL
        /\ Val(calls[p].prior).data # calls[p].ret.val
        /\ cache[calls[p].url] = Some([data |-> calls[p].ret.val, timestamp |-> now])

\* C3: a fetch of a URL ending in .json, .yaml or .yml that is not served from
\* the cache issues one request, to that URL, and never asks for the registry
C3_DirectOneRequest ==
    \A p \in Procs :
        (/\ calls[p].pc # "idle"
         /\ calls[p].url.ext \in {".json", ".yaml", ".yml"}
         /\ ~calls[p].hit)
        => /\ calls[p].reqs = <<calls[p].url>>
           /\ \A i \in 1..Len(calls[p].reqs) :
                 calls[p].reqs[i] # ConfigUrl(BaseUrl(calls[p].url))

C3_Witness ==
    \E p \in Procs :
        /\ calls[p].pc = "ret"
        /\ calls[p].url = UrlDirect
        /\ ~calls[p].hit
        /\ ~calls[p].ret.threw
        /\ calls[p].reqs = <<UrlDirect>>

\* a pipeline that has not ended with a document has written nothing: while it
\* waits and in the step in which it fails the cache stays as it is
FailedRunWritesNothing(p) ==
    (/\ calls[p].pc \in {"awaitDirect", "awaitConfig", "awaitDoc"}
     /\ calls'[p] # calls[p]
     /\ ~(calls'[p].pc = "ret" /\ ~calls'[p].ret.threw))
    => cache' = cache

\* the entry of the URL of a failed call is the entry the call found
EntryAsFound(f) ==
    (f.pc = "ret" /\ f.ret.threw) => cache[f.url] = f.prior

\* a call that finds no entry, or one as old as cacheTTL or older, is not answered
\* from the cache
RunsPipeline(p) ==
    (/\ calls[p].pc = "idle"
     /\ calls'[p].pc # "idle"
     /\ \/ cache[calls'[p].url] = <<>>
        \/ now - cache[calls'[p].url][1].timestamp >= config.cacheTTL)
    => /\ ~calls'[p].hit
       /\ Len(calls'[p].reqs) = 1

\* C29: a fetchSwaggerDoc call that fails writes no cache entry, for its URL or
\* for any other: the cache is unchanged by every step of the failing run, the
\* entry of its URL is the one the call found, and a later call for the URL that
\* finds no fresh entry runs the pipeline again.
C29_FailedFetchWritesNoEntry ==
    /\ [][\A p \in Procs : FailedRunWritesNothing(p) /\ RunsPipeline(p)]_vars
    /\ [](\A p \in Procs : EntryAsFound(calls[p]))

\* a fetch of the hub URL found a stale entry, failed, and the entry is still the
\* one it found
C29_Witness ==
    \E p \in Procs :
        /\ calls[p].pc = "ret"
        /\ calls[p].ret.threw
        /\ calls[p].url = UrlHub
        /\ calls[p].prior # <<>>
        /\ calls[p].at - calls[p].prior[1].timestamp >= config.cacheTTL
        /\ cache[UrlHub] = calls[p].prior
        /\ cache[UrlDirect] = <<>>

---------------------------------------------------------------------------
(* Claims about the merge *)

\* the map as a function, whatever the order of its keys
AsFunction(m) == [key \in KeySet(m) |-> Get(m, key)]

\* the registry entries whose fetch and decode succeeded, in registry order
Survivors(outcomes) == SelectSeq(outcomes, LAMBDA o : o.ok)

PathsOf(doc) == OrEmpty(doc.paths)

\* the schemas of a document live where its version says
SchemasOf(doc) ==
    IF doc.openapi # NoString THEN OrEmpty(doc.schemas) ELSE OrEmpty(doc.definitions)

\* the value under key in the last of the maps that has the key
LastWins(maps, key) ==
    Get(maps[CHOOSE i \in 1..Len(maps) :
                /\ HasKey(maps[i], key)
                /\ \A j \in (i + 1)..Len(maps) : ~HasKey(maps[j], key)], key)

\* the union of the maps, the later map winning on a shared key
UnionLaterWins(maps) ==
    [key \in UNION {KeySet(maps[i]) : i \in 1..Len(maps)} |-> LastWins(maps, key)]

RECURSIVE Concat(_)
Concat(seqs) == IF seqs = <<>> THEN <<>> ELSE seqs[1] \o Concat(Tail(seqs))

\* the tags whose name no earlier tag carries, in order
FirstSeen(tags) ==
    LET keep == {i \in 1..Len(tags) : \A j \in 1..(i - 1) : tags[j].name # tags[i].name}
        rank(i) == Cardinality({j \in keep : j <= i})
    IN  [n \in 1..Cardinality(keep) |-> tags[CHOOSE i \in keep : rank(i) = n]]

\* a hub fetch that ran the pipeline and returned a composite
BuiltComposite(f) ==
    f.pc = "ret" /\ ~f.hit /\ ~f.ret.threw /\ f.url.ext = ""

MergeOfSurvivors(f) ==
    LET docs == [i \in 1..Len(Survivors(f.outcomes)) |-> Survivors(f.outcomes)[i].doc]
        composite == f.ret.val
    IN  /\ AsFunction(PathsOf(composite))
             = UnionLaterWins([i \in 1..Len(docs) |-> PathsOf(docs[i])])
        /\ AsFunction(OrEmpty(composite.schemas))
             = UnionLaterWins([i \in 1..Len(docs) |-> SchemasOf(docs[i])])
        /\ OrEmpty(composite.tags)
             = FirstSeen(Concat([i \in 1..Len(docs) |-> OrEmpty(docs[i].tags)]))

\* C4: the paths, schemas and tags of the composite are the merge, in registry
\* order, of the sources whose fetch and decode did not fail, the later source
\* winning on a shared path or schema name
C4_CompositeIsMergeOfSurvivors ==
    \A p \in Procs : BuiltComposite(calls[p]) => MergeOfSurvivors(calls[p])

VersionOfFirstSurvivor(f) ==
    LET first == Survivors(f.outcomes)[1].doc
        composite == f.ret.val
    IN  Survivors(f.outcomes) # <<>>
        => /\ composite.openapi = first.openapi
           /\ composite.swagger = first.swagger
           /\ composite.securitySchemes = first.securitySchemes

\* C5: the version fields and the securitySchemes of the composite are those of
\* the first registry entry whose fetch and decode succeeded
C5_VersionOfFirstSurvivor ==
    \A p \in Procs : BuiltComposite(calls[p]) => VersionOfFirstSurvivor(calls[p])

\* the sources whose content the loop merged
MergedSources(f) == SelectSeq(Survivors(f.outcomes), LAMBDA o : IsDefined(o.doc.paths))

AllSchemasFound(f) ==
    LET docs == [i \in 1..Len(MergedSources(f)) |-> SchemasOf(MergedSources(f)[i].doc)]
        expected == UnionLaterWins(docs)
    IN  \A name \in DOMAIN expected :
            /\ HasKey(getSchemas(f.ret.val), name)
            /\ Get(getSchemas(f.ret.val), name) = expected[name]
            /\ SchemaByName(f.ret.val, name) = Returned(expected[name])

\* C10: getSchemas of the composite of a hub fetch holds every schema of every
\* merged source, modern or legacy, with the later source's body on a shared name
C10_CompositeSchemasFound ==
    \A p \in Procs : BuiltComposite(calls[p]) => AllSchemasFound(calls[p])

\* the tags declared by the merged sources, in merge order
DeclaredTags(f) ==
    Concat([i \in 1..Len(MergedSources(f)) |-> OrEmpty(MergedSources(f)[i].doc.tags)])

\* the position of the first declared tag that carries the name
FirstOccurrence(declared, name) ==
    CHOOSE i \in 1..Len(declared) :
        declared[i].name = name /\ \A j \in 1..(i - 1) : declared[j].name # name

TagsFirstSeen(f) ==
    LET declared == DeclaredTags(f)
        kept == OrEmpty(f.ret.val.tags)
    IN  /\ \A m, n \in 1..Len(kept) : m # n => kept[m].name # kept[n].name
        /\ \A i \in 1..Len(declared) : \E n \in 1..Len(kept) : kept[n].name = declared[i].name
        /\ \A n \in 1..Len(kept) :
              /\ \E i \in 1..Len(declared) : declared[i].name = kept[n].name
              /\ kept[n] = declared[FirstOccurrence(declared, kept[n].name)]
        /\ \A m, n \in 1..Len(kept) :
              m < n => FirstOccurrence(declared, kept[m].name)
                         < FirstOccurrence(declared, kept[n].name)

\* C12: the tags of the composite of a hub fetch are unique by name and in
\* first-seen order; of the tags that the merged sources declare under one name,
\* in several sources or twice in one, the composite keeps the first in merge order.
C12_TagsFirstSeen ==
    \A p \in Procs : BuiltComposite(calls[p]) => TagsFirstSeen(calls[p])

\* two merged sources declare the tag "us" with different descriptions and the
\* second declares "tb" twice: the composite keeps the first of each
C12_Witness ==
    \E p \in Procs :
        /\ BuiltComposite(calls[p])
        /\ Len(MergedSources(calls[p])) = 2
        /\ DeclaredTags(calls[p]) =
              <<Tag(sUsers, "A"), Tag(sUsers, "B"), Tag(<<"t", "b">>, "B"),
                Tag(<<"t", "b">>, "B2")>>
        /\ calls[p].ret.val.tags = Some(<<Tag(sUsers, "A"), Tag(<<"t", "b">>, "B")>>)

\* the schemas of the composite are those found where the version of each merged
\* source says, and nothing else
SchemasReadByVersion(f) ==
    LET srcs == MergedSources(f) IN
    AsFunction(OrEmpty(f.ret.val.schemas))
        = UnionLaterWins([i \in 1..Len(srcs) |-> SchemasOf(srcs[i].doc)])

\* C24: the merge reads the schemas of each source from components.schemas when
\* the source has openapi set and from definitions when it has swagger set, also
\* when the source carries both maps; the other map adds nothing to the composite.
C24_SchemasReadByVersion ==
    \A p \in Procs : BuiltComposite(calls[p]) => SchemasReadByVersion(calls[p])

\* a decoded source without a paths field gave the composite its schemas and tags
PathlessSourceMerged(f, doc) ==
    /\ \A i \in 1..Len(SchemasOf(doc)) :
          HasKey(OrEmpty(f.ret.val.schemas), SchemasOf(doc)[i].k)
    /\ \A i \in 1..Len(OrEmpty(doc.tags)) :
          \E n \in 1..Len(OrEmpty(f.ret.val.tags)) :
              OrEmpty(f.ret.val.tags)[n].name = OrEmpty(doc.tags)[i].name

PathlessSourcesCount(f) ==
    LET ok == Survivors(f.outcomes) IN
    /\ \A i \in 1..Len(ok) :
          (ok[i].doc.kind = "object" /\ ~IsDefined(ok[i].doc.paths))
          => PathlessSourceMerged(f, ok[i].doc)
    /\ KeySet(combinedDocs) = {ok[i].name : i \in 1..Len(ok)}

\* C26: in a hub fetch a source that decodes to a document without a paths field
\* is a successful source with no paths: the composite holds its schemas and its
\* tags, and the sources retained for per-source lookup are exactly the sources
\* that were fetched, decoded and merged.
C26_PathlessSourceIsMerged ==
    \A p \in Procs : BuiltComposite(calls[p]) => PathlessSourcesCount(calls[p])

---------------------------------------------------------------------------
(* Claims about the tools *)

\* the arguments the queries are tried with
ProbeArgs(name) ==
    CASE name \in {"get_endpoints", "search_endpoints"} -> {NoArgs, BadArgs, Args(sUsers)}
      [] OTHER -> {NoArgs, BadArgs, Args("S"), Args("A")}

ReportsNoDocument(name, args) ==
    LET r == QueryCase(name, args) IN r.threw /\ r.msg = NoDocumentLoaded

\* C6: in every state in which no fetch_swagger call has yet answered without an
\* error, each of the six query tools, whatever its arguments, fails with the
\* NoDocumentLoaded message and returns no result.
C6_QueriesNeedADocument ==
    ~succeeded =>
        \A name \in {"get_endpoints", "search_endpoints", "get_schema", "get_api_info",
                     "get_api_sources", "get_doc_by_source"} :
            \A args \in ProbeArgs(name) : ReportsNoDocument(name, args)

KnownTools == {"fetch_swagger", "validate_swagger", "get_endpoints", "search_endpoints",
               "get_schema", "get_api_info", "get_api_sources", "get_doc_by_source"}

\* a response is the content of a result or a structured error, never an exception
Structured(r) ==
    /\ ~r.escaped
    /\ r.error => r.message # "" /\ r.result = <<>>
    /\ ~r.error => r.message = ""

\* the failures of the synchronous part of the handler
FailsAtOnce(r) ==
    \/ r.tool \notin KnownTools \cup {"none"}
    \/ r.tool \in {"fetch_swagger", "validate_swagger", "search_endpoints", "get_schema",
                   "get_doc_by_source"} /\ r.args.kind # "ok"
    \/ r.tool = "get_endpoints" /\ r.args.kind = "bad"

\* a failed pipeline of fetch_swagger is answered with its error
FetchFailureAnswered(p) ==
    (calls[p].pc = "ret" /\ calls[p].tool = "fetch_swagger" /\ calls[p].ret.threw
        /\ calls'[p].pc = "idle")
    => last'.error /\ last'.message = calls[p].ret.msg /\ last'.args = Args(calls[p].url)

\* C7: every tool call ends with a response: a call that began is eventually
\* answered, the answer is never an exception leaving the handler, and each failure
\* (of the pipeline, of the arguments, of the tool name, of a lookup) is a structured
\* {error: true, message} payload without a result.
C7_EveryCallAnswered ==
    /\ [](Structured(last) /\ (FailsAtOnce(last) => last.error))
    /\ [][\A p \in Procs : FetchFailureAnswered(p)]_vars
    /\ \A p \in Procs : (calls[p].pc # "idle") ~> (calls[p].pc = "idle")

C7_Witness ==
    /\ last.tool = "fetch_swagger"
    /\ last.args = Args(UrlHub)
    /\ last.error
    /\ last.message = "Failed to fetch Swagger documentation"
    /\ last.result = <<>>

\* a fetch_swagger call on a direct-document URL is answered without an error
DirectFetchSucceeds(p) ==
    /\ calls[p].tool = "fetch_swagger"
    /\ calls[p].url.ext \in {".json", ".yaml", ".yml"}
    /\ calls[p].pc = "ret"
    /\ calls'[p].pc = "idle"
    /\ ~last'.error

\* C8: the list of sources is empty before any call, and empty again right after
\* every fetch_swagger call on a direct-document URL that succeeds, whatever
\* preceded it.
C8_NoSourcesAfterDirectFetch ==
    /\ [](ncalls = 0 => getApiSources = <<>>)
    /\ [][\A p \in Procs : DirectFetchSucceeds(p) => getApiSources' = <<>>]_vars

ValidateAnswers(p) ==
    calls[p].tool = "validate_swagger" /\ calls[p].pc # "idle" /\ calls'[p].pc = "idle"

\* C9: a validate_swagger call whose URL was accepted is always answered with a
\* boolean and never with an error; the boolean is true exactly when the fetch
\* returned a document and the validator accepted it, false after any failure.
C9_ValidateAlwaysBoolean ==
    [][\A p \in Procs :
         ValidateAnswers(p) =>
            /\ ~last'.error
            /\ ~last'.escaped
            /\ last'.result.valid \in BOOLEAN
            /\ last'.result.valid <=> (~calls[p].ret.threw /\ calls[p].verdict = Some(TRUE))]_vars

C9_Witness ==
    /\ last.tool = "validate_swagger"
    /\ last.args = Args(UrlDirect)
    /\ ~last.error
    /\ last.result.valid = FALSE

\* a fetch_swagger call is answered with an error in this step, at once or after
\* its pipeline has ended
FetchAnswersError ==
    /\ last'.tool = "fetch_swagger"
    /\ last'.error
    /\ \/ ncalls' # ncalls
       \/ \E p \in Procs : /\ calls[p].tool = "fetch_swagger"
                           /\ calls[p].pc = "ret"
                           /\ calls'[p].pc = "idle"

\* C28: a fetch_swagger call that is answered with an error leaves the current
\* document as it was: a loaded document stays the one the queries read, and when
\* none was loaded the queries go on reporting NoDocumentLoaded.
C28_FailedFetchKeepsDocument ==
    [][FetchAnswersError =>
          /\ cachedSwaggerDoc' = cachedSwaggerDoc
          /\ cachedSwaggerDoc.kind = "null" =>
                \A name \in {"get_endpoints", "get_api_info", "get_api_sources"} :
                    (QueryCase(name, NoArgs).threw
                     /\ QueryCase(name, NoArgs).msg = NoDocumentLoaded)']_vars

---------------------------------------------------------------------------
(* Claims about the queries *)

Loaded == cachedSwaggerDoc.kind # "null"

MapOrEmpty(o) == IF o = <<>> THEN <<>> ELSE o[1]

\* C11: for the loaded document, getSchemas is components.schemas when openapi is
\* set and definitions otherwise, whatever the other map holds, and the empty
\* mapping when the map that the version selects is absent.
C11_SchemasByVersion ==
    Loaded =>
        getSchemas(cachedSwaggerDoc) =
            IF cachedSwaggerDoc.openapi \notin {NoString, ""}
            THEN MapOrEmpty(cachedSwaggerDoc.schemas)
            ELSE MapOrEmpty(cachedSwaggerDoc.definitions)

\* a legacy document with both maps populated is loaded and get_schema has answered
\* from its definitions
C11_Witness ==
    /\ Loaded
    /\ cachedSwaggerDoc.openapi = NoString
    /\ cachedSwaggerDoc.schemas # <<>>
    /\ cachedSwaggerDoc.definitions # <<>>
    /\ last.tool = "get_schema"
    /\ last.args = Args("SD")
    /\ ~last.error
    /\ last.result = "C.definitions"

MethodNames == {<<"g", "e", "t">>, <<"p", "o", "s", "t">>, <<"p", "u", "t">>,
                <<"d", "e", "l", "e", "t", "e">>, <<"p", "a", "t", "c", "h">>,
                <<"o", "p", "t", "i", "o", "n", "s">>, <<"h", "e", "a", "d">>}

\* the key equals a method name up to the case of its letters
IsMethodKey(key) ==
    \E m \in MethodNames :
        /\ Len(key) = Len(m)
        /\ \A i \in 1..Len(m) : key[i] = m[i] \/ key[i] = UpperChar(m[i])

\* the (path, key) positions of a paths object whose key is a method
MethodPairs(paths) ==
    {ij \in (1..Len(paths)) \X (1..8) :
        /\ ij[2] <= Len(paths[ij[1]].v.entries)
        /\ IsMethodKey(paths[ij[1]].v.entries[ij[2]].k)}

Before(a, b) == a[1] < b[1] \/ (a[1] = b[1] /\ a[2] < b[2])

\* the place of a pair in paths order, then key order
Rank(pairs, ij) == Cardinality({x \in pairs : Before(x, ij)}) + 1

\* the endpoint list has one element per method pair, at the pair's rank, carrying
\* the path, the upper-cased key and the fields of the operation
ListsMethodPairs(paths, endpoints) ==
    LET pairs == MethodPairs(paths) IN
    /\ Len(endpoints) = Cardinality(pairs)
    /\ \A ij \in pairs :
          LET e == endpoints[Rank(pairs, ij)]
              item == paths[ij[1]]
              entry == item.v.entries[ij[2]]
          IN  /\ e.path = item.k
              /\ Len(e.method) = Len(entry.k)
              /\ \A i \in 1..Len(entry.k) : e.method[i] = UpperChar(entry.k[i])
              /\ e.summary = entry.v.summary
              /\ e.description = entry.v.description
              /\ e.operationId = entry.v.operationId
              /\ e.tags = entry.v.tags

\* C13: for the loaded document, getEndpoints returns exactly one element for every
\* (path, key) pair whose key is one of the seven methods in any letter case, with
\* the method upper-cased, in paths order and then key order; other keys of a
\* path item produce nothing.
C13_OneEndpointPerMethodKey ==
    (Loaded /\ cachedSwaggerDoc.paths # <<>>) =>
        /\ ~getEndpoints(cachedSwaggerDoc).threw
        /\ ListsMethodPairs(cachedSwaggerDoc.paths[1], getEndpoints(cachedSwaggerDoc).val)

\* get_endpoints has answered for a document with method keys in upper and mixed
\* case next to keys that are no methods: three endpoints out of five keys
C13_Witness ==
    /\ Loaded
    /\ cachedSwaggerDoc.info = Some(Info("Q"))
    /\ last.tool = "get_endpoints"
    /\ last.args = NoArgs
    /\ ~last.error
    /\ Len(last.result) = 3
    /\ last.result[1].method = <<"G", "E", "T">>
    /\ last.result[3].method = <<"H", "E", "A", "D">>
    /\ last.result[3].path = <<"/", "q">>

TextOr(o) == IF o = <<>> THEN <<>> ELSE o[1]

\* path, method, summary, description, operationId and the tags, separated by one
\* space each
SpaceJoined(e) ==
    LET fields == <<e.path, e.method, TextOr(e.summary), TextOr(e.description),
                    TextOr(e.operationId)>> \o TextOr(e.tags)
        PieceAt(i) == IF i = 1 THEN fields[1] ELSE <<" ">> \o fields[i]
        Glue[i \in 0..Len(fields)] == IF i = 0 THEN <<>> ELSE Glue[i - 1] \o PieceAt(i)
    IN  Glue[Len(fields)]

SameLetter(a, b) == a = b \/ LowerChar(a) = LowerChar(b)

\* the query occurs in the text when the case of the letters is ignored
OccursIn(text, query) ==
    \E start \in 0..Len(text) :
        /\ start + Len(query) <= Len(text)
        /\ \A j \in 1..Len(query) : SameLetter(text[start + j], query[j])

\* the result is the subsequence of all made of the matching elements
SelectsMatching(all, result, query) ==
    LET hits == {i \in 1..Len(all) : OccursIn(SpaceJoined(all[i]), query)} IN
    /\ Len(result) = Cardinality(hits)
    /\ \A i \in hits : result[Cardinality({j \in hits : j <= i})] = all[i]

\* C14: for the loaded document and every query, searchEndpoints returns, in the
\* order of getEndpoints, exactly the endpoints whose space-joined text of path,
\* method, summary, description, operationId and tags contains the query, letter
\* case ignored; a query that matches nothing gives the empty list, no error.
C14_SearchSelectsMatching ==
    (Loaded /\ cachedSwaggerDoc.paths # <<>>) =>
        \A query \in SearchQueries :
            /\ ~searchEndpoints(cachedSwaggerDoc, query).threw
            /\ SelectsMatching(getEndpoints(cachedSwaggerDoc).val,
                               searchEndpoints(cachedSwaggerDoc, query).val, query)

\* search_endpoints has answered "pet" with the two endpoints of three that carry
\* it, one in its summary and one in a tag
C14_Witness ==
    /\ Loaded
    /\ cachedSwaggerDoc.info = Some(Info("Q"))
    /\ last.tool = "search_endpoints"
    /\ last.args = Args(<<"p", "E">>)
    /\ ~last.error
    /\ Len(last.result) = 2
    /\ last.result[1].method = <<"G", "E", "T">>
    /\ last.result[2].method = <<"H", "E", "A", "D">>

\* search_endpoints has answered a query that matches nothing with the empty list
C14_WitnessNoMatch ==
    /\ Loaded
    /\ last.tool = "search_endpoints"
    /\ last.args = Args(<<"z", "z">>)
    /\ ~last.error
    /\ last.result = <<>>

\* C27: on every loaded document, also one without a paths field or with a null
\* path item, getEndpoints, getEndpointsByTag, searchEndpoints and getSchemas
\* return a result, possibly empty, and never throw.
C27_AccessorsTotal ==
    Loaded =>
        /\ ~getEndpoints(cachedSwaggerDoc).threw
        /\ \A tag \in {sUsers, sPet} : ~getEndpointsByTag(cachedSwaggerDoc, tag).threw
        /\ \A query \in SearchQueries : ~searchEndpoints(cachedSwaggerDoc, query).threw
        /\ getSchemas(cachedSwaggerDoc) \in Seq([k : STRING, v : STRING])

---------------------------------------------------------------------------
(* Claims about paths that several sources define *)

\* the last of the merged sources that defines the path
LaterSource(srcs, path) ==
    CHOOSE j \in 1..Len(srcs) :
        /\ HasKey(PathsOf(srcs[j].doc), path)
        /\ \A m \in (j + 1)..Len(srcs) : ~HasKey(PathsOf(srcs[m].doc), path)

\* the methods of a path item, upper-cased
MethodsOf(item) ==
    {[n \in 1..Len(item.entries[i].k) |-> UpperChar(item.entries[i].k[n])] :
        i \in {j \in 1..Len(item.entries) : IsMethodKey(item.entries[j].k)}}

LaterPathItemWins(f) ==
    LET srcs == MergedSources(f)
        composite == f.ret.val
        listed == getEndpoints(composite)
    IN  /\ ~listed.threw
        /\ \A k \in 1..Len(PathsOf(composite)) :
              \E i \in 1..Len(srcs) : HasKey(PathsOf(srcs[i].doc), PathsOf(composite)[k].k)
        /\ \A i \in 1..Len(srcs) : \A k \in 1..Len(PathsOf(srcs[i].doc)) :
              LET path == PathsOf(srcs[i].doc)[k].k
                  item == Get(PathsOf(srcs[LaterSource(srcs, path)].doc), path)
                  at == {n \in 1..Len(listed.val) : listed.val[n].path = path}
              IN  /\ HasKey(PathsOf(composite), path)
                  /\ Get(PathsOf(composite), path) = item
                  /\ {listed.val[n].method : n \in at} = MethodsOf(item)
                  /\ Cardinality(at) = Cardinality(MethodsOf(item))

\* C23: for every path that merged sources define, the path item of the composite
\* is the path item of the last source in merge order that defines it, and
\* getEndpoints on the composite lists for that path the methods of that source
\* only; a method that only an earlier source defines is not listed.
C23_LaterPathItemWins ==
    \A p \in Procs : BuiltComposite(calls[p]) => LaterPathItemWins(calls[p])

\* A and then B were merged, both define /p (A with get, B with post): get_endpoints
\* on the composite lists POST /p and no GET /p
C23_Witness ==
    /\ cachedSwaggerDoc.kind = "object"
    /\ cachedSwaggerDoc.info = Some(CombinedInfo(2))
    /\ cachedSwaggerDoc.paths
          = Some(<<Entry(<<"/", "p">>, PathItem(<<Entry(sPost, Operation(<<"B">>, Some(<<sUsers>>)))>>)),
                   Entry(<<"/", "a">>, PathItem(<<Entry(sPost, Operation(<<"A">>, Undefined))>>))>>)
    /\ last.tool = "get_endpoints"
    /\ ~last.error
    /\ Len(last.result) = 2
    /\ last.result[1].path = <<"/", "p">>
    /\ last.result[1].method = <<"P", "O", "S", "T">>
    /\ \A n \in 1..Len(last.result) : last.result[n].method # <<"G", "E", "T">>

---------------------------------------------------------------------------
(* Claims about the decorator *)

Given(auth, field) ==
    /\ auth.credentials # <<>>
    /\ auth.credentials[1][field] \notin {NoString, ""}

\* the credentials that the configured type requires are all present and non-empty
Activated(auth) ==
    \/ auth.type = "basic" /\ Given(auth, "username") /\ Given(auth, "password")
    \/ auth.type = "bearer" /\ Given(auth, "token")
    \/ auth.type = "apiKey" /\ Given(auth, "apiKey")

\* the header that the configured type sets
HeaderName(auth) ==
    IF auth.type = "apiKey" THEN auth.credentials[1].apiKeyHeader ELSE "Authorization"

\* the headers a request carries: none when it has no header map
HeadersOf(request) == AsFunction(MapOrEmpty(request.headers))

Decorated ==
    LET auth == config.auth
        before == HeadersOf(requestConfig)
        after == HeadersOf(requestConfig')
    IN  /\ requestConfig'.method = requestConfig.method
        /\ requestConfig'.data = requestConfig.data
        /\ ~Activated(auth) => after = before
        /\ Activated(auth) =>
              /\ DOMAIN after = DOMAIN before \cup {HeaderName(auth)}
              /\ \A name \in DOMAIN before \ {HeaderName(auth)} : after[name] = before[name]
              /\ auth.type = "bearer" => after["Authorization"] = "Bearer u"
              /\ auth.type = "basic" => after["Authorization"] = "Basic base64(u:u)"
              /\ auth.type = "apiKey" => after[HeaderName(auth)] = "u"

\* C15: preparing a request sets a header only when the credentials that the
\* configured type requires are all present and non-empty (basic: username and
\* password, bearer: token, apiKey: key); otherwise, for type none and for an empty
\* or missing credential, the headers the request carries stay as they were; method
\* and body are never changed.
C15_HeaderOnlyWithCredentials ==
    [][requestConfig' # requestConfig => Decorated]_vars

\* a request that carried an X-Key header was prepared under apiKey with an empty
\* key and header name X-Key: the header still has its old value
C15_Witness ==
    /\ config.auth.type = "apiKey"
    /\ config.auth.credentials # <<>>
    /\ config.auth.credentials[1].apiKey = ""
    /\ config.auth.credentials[1].apiKeyHeader = "X-Key"
    /\ requestConfig.responseType = "text"
    /\ requestConfig.headers = Some(<<Entry("X-Key", "old")>>)
    /\ requestConfig.data = "body"

---------------------------------------------------------------------------
(* Claims about failures of the pipeline *)

\* a hub fetch whose loop over the registry has ended and in which every entry
\* failed to be fetched or decoded
AllEntriesFailed(f) ==
    /\ f.pc = "ret"
    /\ ~f.hit
    /\ f.url.ext = ""
    /\ f.urls # <<>>
    /\ Len(f.outcomes) = Len(f.urls)
    /\ \A i \in 1..Len(f.outcomes) : ~f.outcomes[i].ok

EmptyCompositeCached(f) ==
    /\ ~f.ret.threw
    /\ f.ret.val.kind = "object"
    /\ f.ret.val.paths = <<<<>>>>
    /\ f.ret.val.schemas = <<<<>>>>
    /\ f.ret.val.tags = <<<<>>>>
    /\ cache[f.url] # <<>>
    /\ cache[f.url][1].data = f.ret.val

\* C16: a hub fetch over a non-empty registry in which every entry's fetch or
\* decode failed does not fail: it returns a composite whose paths, schemas and
\* tags are empty, and that composite is the cache entry of the URL.
C16_AllFailedGivesEmptyComposite ==
    \A p \in Procs : AllEntriesFailed(calls[p]) => EmptyCompositeCached(calls[p])

\* three entries were requested and all three failed: the empty composite is
\* returned and cached
C16_Witness ==
    \E p \in Procs :
        /\ AllEntriesFailed(calls[p])
        /\ Len(calls[p].outcomes) = 3
        /\ Len(calls[p].reqs) = 4
        /\ EmptyCompositeCached(calls[p])

\* the answers after which no document can be had
DocUnavailable(resp) == resp.status = "error" \/ resp.body.fmt = "garbage"

ConfigUnavailable(resp) == resp.status = "error" \/ resp.body.fmt # "json"

ConfigWithoutSources(resp) ==
    /\ resp.status = "ok"
    /\ resp.body.fmt = "json"
    /\ resp.body.val.kind = "object"
    /\ resp.body.val.urls \in {<<>>, <<<<>>>>}

\* the step ends the pipeline of p with the wrapped error, requests nothing more
\* and leaves the cache alone
FailsWrapped(p) ==
    /\ calls'[p].pc = "ret"
    /\ calls'[p].ret.threw
    /\ calls'[p].ret.msg = "Failed to fetch Swagger documentation"
    /\ calls'[p].reqs = calls[p].reqs
    /\ Len(calls'[p].reqs) = 1
    /\ cache' = cache

FatalFailures(p) ==
    /\ \A resp \in ToolDocs :
          (DocUnavailable(resp) /\ DirectResponse(p, resp)) => FailsWrapped(p)
    /\ \A resp \in ToolConfigs :
          ((ConfigUnavailable(resp) \/ ConfigWithoutSources(resp)) /\ ConfigResponse(p, resp))
          => (FailsWrapped(p) /\ calls'[p].reqs = <<ConfigUrl(calls[p].url.origin)>>)

\* C17: the pipeline fails with the wrapped error, and caches nothing, when the
\* direct document cannot be fetched or decoded, when swagger-config.json cannot be
\* fetched or parsed, and when the registry has no urls list or an empty one; in
\* the hub cases the registry is the only request made.
C17_FatalFailuresWrapped ==
    [][\A p \in Procs : FatalFailures(p)]_vars

\* a hub fetch ended on a registry with an empty urls list after one request, and
\* the call was answered with the error
C17_Witness ==
    /\ swaggerConfig.kind = "object"
    /\ swaggerConfig.urls = <<<<>>>>
    /\ last.tool = "fetch_swagger"
    /\ last.args = Args(UrlHub)
    /\ last.error
    /\ last.message = "Failed to fetch Swagger documentation"
    /\ cache[UrlHub] = <<>>

\* the body has no content: it is empty or holds white space only
NoContent(resp) == resp.status = "ok" /\ resp.body.fmt \in {"empty", "blank"}

\* the direct fetch of p fails in this step and stores nothing
DirectFailsUncached(p) ==
    /\ calls'[p].pc = "ret"
    /\ calls'[p].ret.threw
    /\ cache' = cache

\* the entry that p waits for is skipped as a failed source in this step
EntrySkipped(p) ==
    /\ Len(calls'[p].outcomes) = Len(calls[p].outcomes) + 1
    /\ ~calls'[p].outcomes[Len(calls'[p].outcomes)].ok
    /\ calls'[p].loc = calls[p].loc
    /\ combinedDocs' = combinedDocs

\* C25: a body that is empty or holds only white space never yields a document:
\* answered to a direct fetch it makes the fetch fail with nothing cached, answered
\* to an entry of the registry it makes the entry a failed source that is skipped.
C25_EmptyBodyYieldsNoDocument ==
    [][\A p \in Procs : \A resp \in {HttpOk(EmptyBody), HttpOk(BlankBody)} :
          /\ (NoContent(resp) /\ DirectResponse(p, resp)) => DirectFailsUncached(p)
          /\ (NoContent(resp) /\ DocResponse(p, resp)) => EntrySkipped(p)]_vars

---------------------------------------------------------------------------
(* Claims about the retained per-source documents *)

\* the names under which a pipeline fetched and decoded a document
FetchedNames(outcomes) ==
    {outcomes[i].name : i \in {j \in 1..Len(outcomes) : outcomes[j].ok}}

\* the document a pipeline fetched last under the name, tagged with the name
FetchedUnder(outcomes, name) ==
    LET i == CHOOSE j \in 1..Len(outcomes) :
                /\ outcomes[j].ok
                /\ outcomes[j].name = name
                /\ \A k \in (j + 1)..Len(outcomes) :
                      ~(outcomes[k].ok /\ outcomes[k].name = name)
    IN  [outcomes[i].doc EXCEPT !.source = name]

\* the complete per-source set that one pipeline produces
SetProducedBy(outcomes) ==
    [name \in FetchedNames(outcomes) |-> FetchedUnder(outcomes, name)]

\* the retained set changes only by being replaced, in the step that ends a
\* pipeline, with the complete set of that pipeline
ReplacedInBulk ==
    combinedDocs' # combinedDocs =>
        \E p \in Procs :
            /\ Ends(p)
            /\ AsFunction(combinedDocs') = SetProducedBy(calls'[p].outcomes)

\* C18: whatever the interleaving of fetches and queries at the await points of
\* the pipeline, the retained per-source set is only ever replaced as a whole by
\* the complete set of one fetch, so that no state a query can run in shows a
\* partially filled set or a mix of the sources of two fetches.
C18_RetainedSetReplacedInBulk ==
    [][ReplacedInBulk]_vars

\* both pipelines have ended and the retained set is the complete set of neither:
\* it mixes a source of one fetch with a source of the other
C18_MixOfTwoFetches ==
    /\ \A p \in Procs : calls[p].pc = "ret" /\ ~calls[p].ret.threw
    /\ \A p \in Procs : AsFunction(combinedDocs) # SetProducedBy(calls[p].outcomes)
    /\ \E name \in KeySet(combinedDocs) : name \notin FetchedNames(calls[1].outcomes)
    /\ \E name \in KeySet(combinedDocs) : name \notin FetchedNames(calls[2].outcomes)

\* what the pipeline that ends in this step fetched is all that is retained
OnlyOwnDocuments(p) ==
    \A name \in KeySet(combinedDocs') :
        /\ name \in FetchedNames(calls'[p].outcomes)
        /\ Get(combinedDocs', name) = FetchedUnder(calls'[p].outcomes, name)

\* C19: after every top-level fetch that ran the pipeline, in single-document mode
\* as in hub mode, getDocBySource returns only documents fetched by that fetch:
\* nothing retained by an earlier fetch is left.
C19_RetainedSetOfThisFetch ==
    [][\A p \in Procs : (Ends(p) /\ ~calls'[p].hit) => OnlyOwnDocuments(p)]_vars

\* the requests of a hub fetch that has read its registry: the registry, then the
\* first n entries in registry order
RequestsInOrder(f, n) ==
    /\ Len(f.reqs) = n + 1
    /\ f.reqs[1] = Url(f.url.origin, "swagger-config", ".json")
    /\ \A i \in 1..n :
          f.reqs[i + 1] = Url(f.url.origin, f.urls[i].url.path, f.urls[i].url.ext)

\* the entries that have completed are the first n, in registry order
CompletedInOrder(f, n) ==
    /\ Len(f.outcomes) = n
    /\ \A i \in 1..n : f.outcomes[i].name = f.urls[i].name

OneAtATime(f) ==
    /\ f.pc = "awaitDoc" =>
          /\ f.idx \in 1..Len(f.urls)
          /\ RequestsInOrder(f, f.idx)
          /\ CompletedInOrder(f, f.idx - 1)
    /\ (f.pc = "ret" /\ f.urls # <<>>) =>
          /\ RequestsInOrder(f, Len(f.urls))
          /\ CompletedInOrder(f, Len(f.urls))

\* C20: in a hub fetch, once the registry is read, the entries are requested one
\* at a time in registry order, each request made when all entries before it have
\* completed, and when the pipeline ends every entry has been requested exactly
\* once, whichever of them failed.
C20_EntriesOneAtATimeInOrder ==
    \A p \in Procs :
        /\ OneAtATime(calls[p])
        /\ calls[p].pc = "awaitDoc" => calls[p].urls = swaggerConfig.urls[1]

\* the first of three entries failed and all three were requested
C20_Witness ==
    \E p \in Procs :
        /\ calls[p].pc = "ret"
        /\ Len(calls[p].urls) = 3
        /\ ~calls[p].outcomes[1].ok
        /\ calls[p].outcomes[3].ok
        /\ Len(calls[p].reqs) = 4

---------------------------------------------------------------------------
(* Claims about overlapping fetches *)

\* the pipeline of the frame is waiting for an answer
InFlight(f) == f.pc \in {"awaitDirect", "awaitConfig", "awaitDoc"}

\* the entry of u changes only in the step that ends a pipeline run for u with a
\* document, and becomes that document stamped with the current time
WrittenAtCompletion(u) ==
    cache'[u] # cache[u] =>
        \E p \in Procs :
            /\ Ends(p)
            /\ calls[p].url = u
            /\ ~calls'[p].ret.threw
            /\ cache'[u] = Some([data |-> calls'[p].ret.val, timestamp |-> now])

\* q enters fetchSwaggerDoc(u) while another call is in flight for u and the entry
\* of u is absent or stale: q finds the entry as it is, is not served from it and
\* sends the first request of a run of its own
StartsOwnRun(q, u) ==
    (/\ Begins(q)
     /\ calls'[q].url = u
     /\ \E p \in Procs \ {q} : InFlight(calls[p]) /\ calls[p].url = u
     /\ ~(cache[u] # <<>> /\ now - cache[u][1].timestamp < config.cacheTTL))
    => /\ ~calls'[q].hit
       /\ calls'[q].prior = cache[u]
       /\ calls'[q].reqs =
             <<IF u.ext = "" THEN Url(u.origin, "swagger-config", ".json") ELSE u>>
       /\ \A p \in Procs \ {q} : calls'[p] = calls[p]
       /\ cache' = cache

\* a run that has ended made every request of the pipeline itself
FullSetOfRequests(f) ==
    (f.pc = "ret" /\ ~f.hit) =>
        IF f.url.ext # "" THEN f.reqs = <<f.url>>
        ELSE /\ f.reqs # <<>>
             /\ f.reqs[1] = Url(f.url.origin, "swagger-config", ".json")
             /\ Len(f.reqs) = 1 + Len(f.urls)
             /\ \A i \in 1..Len(f.urls) :
                   f.reqs[i + 1] = Url(f.url.origin, f.urls[i].url.path, f.urls[i].url.ext)

\* C21: the cache entry of U is written only in the step that completes a
\* pipeline run for U; a fetch of U that starts while another is in flight, with
\* the entry of U absent or stale, is not served from the cache, does not touch
\* the other run and makes every request of the pipeline itself.
C21_NoSingleFlight ==
    /\ [][\A u \in AllUrls : WrittenAtCompletion(u)]_vars
    /\ [][\A q \in Procs, u \in AllUrls : StartsOwnRun(q, u)]_vars
    /\ [](\A p \in Procs : FullSetOfRequests(calls[p]))

\* two runs for the hub URL have ended side by side: the second began before the
\* first wrote the entry, and each made the three requests of the pipeline
C21_Witness ==
    /\ \A p \in Procs :
          /\ calls[p].pc = "ret"
          /\ calls[p].url = UrlHub
          /\ ~calls[p].hit
          /\ ~calls[p].ret.threw
          /\ calls[p].prior = <<>>
          /\ Len(calls[p].reqs) = 3
    /\ cache[UrlHub] # <<>>

---------------------------------------------------------------------------
(* Claims about the single-document mode *)

\* the composite that the hub branch builds from a registry whose only entry
\* serves the document
HubOfOne(doc) ==
    CombinedDoc(FirstDoc(MapSet(<<>>, "A", WithSource(doc, "A"))), 1, MergeDoc(NoLocals, doc))

\* the document that the body denotes, when it denotes one
Denotes(resp, doc) ==
    resp.status = "ok" /\ resp.body.fmt \in {"json", "yaml"} /\ resp.body.val = doc

SameAsHubOfOne(p, doc) ==
    /\ ~calls'[p].ret.threw
    /\ calls'[p].ret.val = HubOfOne(doc)
    /\ cache'[calls[p].url] # <<>>
    /\ cache'[calls[p].url][1].data = HubOfOne(doc)

\* C22: the document returned and cached by a fetch of a direct-document URL that
\* serves D is the composite that the hub branch builds from the single source D:
\* the synthesized info, the schemas under components.schemas, the tags
\* de-duplicated.
C22_DirectIsHubOfOne ==
    [][\A p \in Procs : \A doc \in {DocA, DocB, DocC, DocQ, DocM, DocE} :
          \A resp \in {HttpOk(Json(doc)), HttpOk(Yaml(doc))} :
              (Denotes(resp, doc) /\ DirectResponse(p, resp)) => SameAsHubOfOne(p, doc)]_vars

\* no call of the handler is waiting at an await
BetweenOperations == \A p \in Procs : calls[p].pc = "idle"

\* C30: between operations, after any sequence of fetch_swagger and
\* validate_swagger calls that succeeded or failed, every source name for which
\* getDocBySource returns a document is one of the names that getApiSources lists.
C30_RetainedNamesAreListed ==
    BetweenOperations =>
        \A name \in {"A", "B", "none"} :
            getDocBySource(name) # <<>>
            => \E i \in 1..Len(getApiSources) : getApiSources[i].name = name

\* fetchSwaggerDoc has returned a composite for a hub URL to the frame, built by
\* this call or taken from the cache
ReturnedComposite(f) == f.pc = "ret" /\ ~f.ret.threw /\ f.url.ext = ""

\* what the document holds is in the composite: its paths, its schemas, its tags
ContainedIn(doc, composite) ==
    /\ \A i \in 1..Len(PathsOf(doc)) : HasKey(PathsOf(composite), PathsOf(doc)[i].k)
    /\ \A i \in 1..Len(SchemasOf(doc)) :
          HasKey(OrEmpty(composite.schemas), SchemasOf(doc)[i].k)
    /\ \A i \in 1..Len(OrEmpty(doc.tags)) :
          \E n \in 1..Len(OrEmpty(composite.tags)) :
              OrEmpty(composite.tags)[n].name = OrEmpty(doc.tags)[i].name

\* the registry has as many entries as the composite was combined from, and every
\* retained document is a source whose content the composite holds
SourcesBelongTo(composite) ==
    /\ composite.info # <<>>
    /\ composite.info[1].description
          = "Combined documentation from " \o ToString(Len(getApiSources)) \o " API sources"
    /\ \A i \in 1..Len(combinedDocs) : ContainedIn(combinedDocs[i].v, composite)

\* C31: whenever fetchSwaggerDoc returns a composite for a hub URL, freshly built
\* or served from the cache, the registry that getApiSources lists and the
\* documents that getDocBySource returns are those of that URL: every retained
\* document is a source merged into the returned composite.
C31_SourcesBelongToReturnedComposite ==
    \A p \in Procs : ReturnedComposite(calls[p]) => SourcesBelongTo(calls[p].ret.val)

\* a validate_swagger call is answered in this step, and the call answered just
\* before it began was a query on a loaded document
ValidatedAfterQuery(p) ==
    /\ calls[p].tool = "validate_swagger"
    /\ calls[p].pc # "idle"
    /\ calls'[p].pc = "idle"
    /\ last.tool \in {"get_endpoints", "get_schema", "get_api_info", "get_api_sources",
                      "get_doc_by_source"}
    /\ cachedSwaggerDoc.kind # "null"

\* the query answered before the call gets the same answer after it
SameAnswerAgain ==
    \A before \in {last} :
        LET again == QueryCase(before.tool, before.args)' IN
        /\ again.threw = before.error
        /\ again.threw => again.msg = before.message
        /\ ~again.threw => again.val = before.result

\* C32: a validate_swagger call changes no answer of the queries: with a document
\* loaded, the query answered immediately before the call (get_endpoints,
\* get_schema, get_api_info, get_api_sources, get_doc_by_source) gets the same
\* answer immediately after it, whatever the URL validated and its outcome.
C32_ValidateChangesNoAnswer ==
    [][\A p \in Procs : ValidatedAfterQuery(p) => SameAnswerAgain]_vars

====
